---- MODULE Spec2Model ----
(***************************************************************************)
(* Run coordination and feedback engine of fuzzing-ci.                     *)
(*                                                                         *)
(* One tracked branch is modelled: the registry of coordination tokens is  *)
(* keyed by branch name and the entries of different branches never        *)
(* interact.  Pushes are numbered in the order in which their handlers     *)
(* enter get_sync.  Push p, when it launches a run, launches run p.  A     *)
(* token is named after the push that created it.                          *)
(*                                                                         *)
(* tokio primitives:                                                       *)
(*   Notify            a stored permit (at most one) and a FIFO of parked  *)
(*                     waiters; notify_one wakes the first waiter, or      *)
(*                     stores the permit when nobody is parked.            *)
(*   broadcast channel a receiver sees only what is sent after subscribe;  *)
(*                     send fails when there is no receiver.               *)
(*   select!           completes with any one of its ready branches.       *)
(*                                                                         *)
(* Spec follows the whole program.  SharedFeedbackMap is also followed on  *)
(* its own, under any sequence of calls, by AggSpec, and the loop of       *)
(* ScheduledUpdater, with the time its sleeps take, by SchedSpec.  The     *)
(* output filter and the report watcher of one target are followed, line   *)
(* by line and event by event, by ParseSpec, and the calibration that       *)
(* comes before them in Target::run by CalibSpec.  run_fuzzers, with the    *)
(* exit status of the tools it runs and the outcome of the target tasks    *)
(* it joins, is followed by RunSpec.  Report::new, with the directory of    *)
(* the earlier runs of the branch, is followed by ReportSpec, and the      *)
(* diffs and the summary of Report::update by DiffSpec.  The working       *)
(* directories of the runs of several branches are followed by DirSpec,    *)
(* and a status file from save_status to load by StoreSpec.                *)
(***************************************************************************)
EXTENDS Integers, Sequences, FiniteSets, TLC

\* Number of push events for the branch.
MaxPush == 3
\* Number of fuzzing targets of the configuration.
NumTargets == 1
\* Largest covered-edge count a target reports.
MaxCov == 1
\* Number of runs whose Feedback object is followed.
FbRuns == 1
\* AggSpec: number of target names and of calls made on the map.
NumNames == 2
MaxCalls == 4
\* SchedSpec: start_timeout, update_timeout and no_update_timeout of the
\* configuration, in time units.
StartTimeout == 2
UpdateTimeout == 3
NoUpdateTimeout == 4
\* ParseSpec: number of targets whose output is filtered.
NumParsers == 2
\* ParseSpec: number of lines read from the subprocesses.
MaxLines == 3
\* RunSpec: number of target tasks of the run.
NumTasks == 2
\* ReportSpec: number of entries of the directory of the branch.
NumDirs == 3
\* ReportSpec: latest creation time of an entry.
MaxTime == 2
\* ReportSpec: number of status files written after Report::new.
MaxWrites == 1
\* DiffSpec: width in bits of the counters of a TargetStatus and of the
\* fields of a delta.  The source has 32; the casts and the subtraction are
\* followed at this width.
CounterBits == 3
\* ParseSpec: number of file-system events delivered to the watcher.
MaxEvents == 2

Pushes == 1..MaxPush
Runs == Pushes
Tokens == Pushes
Targets == 1..NumTargets
Names == 1..NumNames
\* A run's Feedback (map, updater, report) is private to the run and nothing
\* in push_hook, run_fuzzers or Target::run reads it back; it is followed
\* for the runs of Tracked.
Tracked == 1..FbRuns

\* Values of "guard_nb:" found by the calibration run.
Totals == {3}
\* Edge counts carried by a coverage line.
EdgeVals == {1}
\* AggSpec: totals passed to set_total.
AggTotals == {2, 3}
Parsers == 1..NumParsers
Tasks == 1..NumTasks

NoToken == 0
NoStatus == [total |-> -1, covered |-> -1, errors |-> -1]
\* hfuzz-status.toml: absent, or holding a serialized FuzzingStatus.
NoFile == [present |-> FALSE, status |-> <<>>]
File(s) == [present |-> TRUE, status |-> s]

\* DirSpec: number of push events, over all branches.
MaxDirPushes == 4

VARIABLES
    registry,    \* notifies: the branch's token, NoToken when absent
    permit,      \* Synch.notify: stored permit, per token
    waiters,     \* Synch.notify: parked pushes, per token, oldest first
    ppc,         \* push handler position
    ptok,        \* token returned to the push by get_sync
    sawActive,   \* runs not yet signalled on the token when the push broadcast
    warned,      \* the push's cancellation send found no receiver
    rpc,         \* run task position
    signalled,   \* times the run task called notify_one
    lst,         \* stop listener spawned by create_feedback
    tpc,         \* target task position
    child,       \* fuzzing subprocess of the target
    tstop,       \* message pending in the target's stop receiver
    agg,         \* SharedFeedbackMap of the run
    spc,         \* ScheduledUpdater loop position
    supd,        \* ScheduledUpdater: local "update"
    updPermit,   \* ScheduledUpdater.updated permit
    stopPermit,  \* ScheduledUpdater.stopped permit
    inflight,    \* snapshots held by spawned report.update tasks
    disk,        \* hfuzz-status.toml of the run directory
    sent,        \* last message the callback or its report task sent
    amap,        \* AggSpec: the SharedFeedbackMap
    acalls,      \* AggSpec: the calls made on it, oldest first
    uloop,       \* SchedSpec: the spawned loop, "run" or "stopped"
    utimeout,    \* SchedSpec: local "timeout"
    uleft,       \* SchedSpec: time left before the armed sleep expires
    uupdate,     \* SchedSpec: local "update"
    ustart,      \* SchedSpec: local "start"
    uupdated,    \* SchedSpec: permit of the Notify "updated"
    ustopped,    \* SchedSpec: permit of the Notify "stopped"
    usig,        \* SchedSpec: stop() has been called
    uevt,        \* SchedSpec: update() was called in the current time unit
    uany,        \* SchedSpec: update() has been called at all
    uburst,      \* SchedSpec: update() calls no callback has followed (0, 1, many)
    usince,      \* SchedSpec: time since the last update() call
    uidle,       \* SchedSpec: time since the last callback, or since the start
    ucb,         \* SchedSpec: the callbacks: their number (0, 1, many) and its
                 \* parity, hadUpdate and uburst of the last one
    pline,       \* ParseSpec: per target, local "line" of filter_output
    pstate,      \* ParseSpec: per target, filter_output, "read" or "done"
    plog,        \* ParseSpec: per target, the lines read from its stream
    pcalls,      \* ParseSpec: arguments of the add_covered calls made
    perrs,       \* ParseSpec: arguments of the add_errors calls made
    pwatch,      \* ParseSpec: per target, the watcher task, "on" or "off"
    pevents,     \* ParseSpec: number of events the watchers have received
    pchild,      \* ParseSpec: per target, the subprocess, "running" or "exited"
    cstate,      \* CalibSpec: per target, where Target::run is
    cout,        \* CalibSpec: per target, what the calibration run gave
    ctotals,     \* CalibSpec: arguments of the set_total calls made
    cchild,      \* CalibSpec: per target, the fuzzing subprocess
    fpc,         \* RunSpec: where run_fuzzers is
    fcheckout,   \* RunSpec: how checkout.sh ended
    fbuild,      \* RunSpec: how cargo hfuzz build ended
    ftask,       \* RunSpec: per target task, "none", "run" or its outcome
    fjoined,     \* RunSpec: number of handles hfuzz::run has awaited
    flog,        \* RunSpec: what has been logged
    hparent,     \* ReportSpec: the directory of the branch can be read
    hfs,         \* ReportSpec: the entries of the directory of the branch
    hpc,         \* ReportSpec: "before" the earlier runs, "new" when
                 \* Report::new is called, "ready" after it
    hfound,      \* ReportSpec: what find_previous returned
    hprevious,   \* ReportSpec: field "previous" of the Report
    hused,       \* ReportSpec: prev_run baseline of the last get_diff
    hwrites,     \* ReportSpec: number of status files written since new
    dpc,         \* DiffSpec: "before", "ready" (update called) or "done"
    dcurr,       \* DiffSpec: the snapshot given to Report::update
    dprev,       \* DiffSpec: the status loaded from hfuzz-status.toml
    dinit,       \* DiffSpec: the status loaded from hfuzz-init-status.toml
    dprun,       \* DiffSpec: field "previous" of the Report
    dout,        \* DiffSpec: the diffs and the summary computed
    wentry,      \* DirSpec: per branch, the map "notifies" has a Synch
    wpermit,     \* DirSpec: per branch, the notification is stored
    wparked,     \* DirSpec: per branch, the pushes waiting in notified()
    wdir,        \* DirSpec: per branch, the directory its active run works in
    wpushes,     \* DirSpec: number of push events received
    epc,         \* StoreSpec: "before", "chosen", "saved", "failed", "loaded"
    estatus,     \* StoreSpec: the FuzzingStatus given to save_status
    efile,       \* StoreSpec: the status file
    ebuf,        \* StoreSpec: data write_all has handed to the file's
                 \* background write
    eloaded      \* StoreSpec: what load returned

progVars == <<registry, permit, waiters, ppc, ptok, sawActive, warned, rpc,
              signalled, lst, tpc, child, tstop, agg, spc, supd, updPermit,
              stopPermit, inflight, disk, sent>>
aggVars == <<amap, acalls>>
schedVars == <<uloop, utimeout, uleft, uupdate, ustart, uupdated, ustopped,
               usig, uevt, uany, uburst, usince, uidle, ucb>>
parseVars == <<pline, pstate, plog, pcalls, perrs, pwatch, pevents, pchild>>
calibVars == <<cstate, cout, ctotals, cchild>>
fuzzVars == <<fpc, fcheckout, fbuild, ftask, fjoined, flog>>
histVars == <<hparent, hfs, hpc, hfound, hprevious, hused, hwrites>>
diffVars == <<dpc, dcurr, dprev, dinit, dprun, dout>>
branchVars == <<wentry, wpermit, wparked, wdir, wpushes>>
storeVars == <<epc, estatus, efile, ebuf, eloaded>>

vars == <<registry, permit, waiters, ppc, ptok, sawActive, warned, rpc,
          signalled, lst, tpc, child, tstop, agg, spc, supd, updPermit,
          stopPermit, inflight, disk, sent, amap, acalls, uloop, utimeout, uleft,
          uupdate, ustart, uupdated, ustopped, usig, uevt, uany, uburst,
          usince, uidle, ucb, pline, pstate, plog, pcalls, perrs, pwatch,
          pevents, pchild, cstate, cout, ctotals, cchild, fpc, fcheckout,
          fbuild, ftask, fjoined, flog, hparent, hfs, hpc, hfound,
          hprevious, hused, hwrites, dpc, dcurr, dprev, dinit, dprun, dout,
          wentry, wpermit, wparked, wdir, wpushes, epc, estatus, efile, ebuf,
          eloaded>>

\* What the steps of the program, of the map on its own, of the loop on its
\* own, of the filter on its own and of the calibration on its own leave
\* alone.
unitVars ==
    <<aggVars, schedVars, parseVars, calibVars, fuzzVars, histVars, diffVars,
      branchVars, storeVars>>
notAggVars ==
    <<progVars, schedVars, parseVars, calibVars, fuzzVars, histVars, diffVars,
      branchVars, storeVars>>
notSchedVars ==
    <<progVars, aggVars, parseVars, calibVars, fuzzVars, histVars, diffVars,
      branchVars, storeVars>>
notParseVars ==
    <<progVars, aggVars, schedVars, calibVars, fuzzVars, histVars, diffVars,
      branchVars, storeVars>>
notCalibVars ==
    <<progVars, aggVars, schedVars, parseVars, fuzzVars, histVars, diffVars,
      branchVars, storeVars>>
notFuzzVars ==
    <<progVars, aggVars, schedVars, parseVars, calibVars, histVars, diffVars,
      branchVars, storeVars>>
notHistVars ==
    <<progVars, aggVars, schedVars, parseVars, calibVars, fuzzVars, diffVars,
      branchVars, storeVars>>
notDiffVars ==
    <<progVars, aggVars, schedVars, parseVars, calibVars, fuzzVars, histVars,
      branchVars, storeVars>>

notBranchVars ==
    <<progVars, aggVars, schedVars, parseVars, calibVars, fuzzVars, histVars,
      diffVars, storeVars>>
notStoreVars ==
    <<progVars, aggVars, schedVars, parseVars, calibVars, fuzzVars, histVars,
      diffVars, branchVars>>

pushVars == <<ppc, ptok, sawActive, warned>>
tokVars == <<registry, permit, waiters>>
runVars == <<rpc, signalled>>
tgtVars == <<tpc, child, tstop>>
fbVars == <<agg, spc, supd, updPermit, stopPermit, inflight, disk, sent>>

----
\* SharedFeedbackMap.  The counters are u32; every count reached here stays
\* below MaxCov, far from 2^32.

EmptyMap == [t \in Targets |-> NoStatus]

SetTotal(m, t, total) ==
    [m EXCEPT ![t] = [total |-> total, covered |-> 0, errors |-> 0]]

\* add_covered written with entry().or_insert(): an unknown target gets an
\* entry.
AddCoveredInsert(m, t, covered) ==
    IF m[t] = NoStatus
    THEN [m EXCEPT ![t] = [total |-> 0, covered |-> covered, errors |-> 0]]
    ELSE [m EXCEPT ![t].covered = @ + covered]

AddCovered(m, t, covered) ==
    IF m[t] = NoStatus THEN m
    ELSE [m EXCEPT ![t].covered = @ + covered]

AddErrors(m, t, errors) ==
    IF m[t] = NoStatus THEN m
    ELSE [m EXCEPT ![t].errors = @ + errors]

Snapshot(m) == m

\* Feedback::set_total / add_covered / add_errors: the map, then
\* updater.update().
FeedbackUpdate(r, m) ==
    IF r \in Tracked
    THEN /\ agg' = [agg EXCEPT ![r] = m]
         /\ updPermit' = [updPermit EXCEPT ![r] = TRUE]
    ELSE UNCHANGED <<agg, updPermit>>

----
\* Synch

Active(r) == rpc[r] \in {"checkout", "prep", "join"}

OnToken(k) == {r \in Runs : ptok[r] = k}

\* Receivers of the token's broadcast channel that are alive.
HasReceiver(k) ==
    \E r \in OnToken(k) :
        \/ lst[r] \in {"listening", "pending"}
        \/ \E t \in Targets : tpc[r][t] \in {"select", "wait"}

LstAfterSend(k) ==
    [r \in Runs |-> IF ptok[r] = k /\ lst[r] = "listening"
                    THEN "pending" ELSE lst[r]]

TstopAfterSend(k) ==
    [r \in Runs |-> [t \in Targets |->
        IF ptok[r] = k /\ tpc[r][t] \in {"select", "wait"}
        THEN TRUE ELSE tstop[r][t]]]

\* notify_one taken for notify_waiters: nothing is stored when nobody is
\* parked.
NotifyOneNoPermit(k) ==
    IF waiters[k] # <<>>
    THEN /\ ppc' = [ppc EXCEPT ![Head(waiters[k])] = "feedback"]
         /\ waiters' = [waiters EXCEPT ![k] = Tail(@)]
         /\ UNCHANGED permit
    ELSE UNCHANGED <<ppc, waiters, permit>>

\* Notify::notify_one on the token's completion signal.
NotifyOne(k) ==
    IF waiters[k] # <<>>
    THEN /\ ppc' = [ppc EXCEPT ![Head(waiters[k])] = "feedback"]
         /\ waiters' = [waiters EXCEPT ![k] = Tail(@)]
         /\ UNCHANGED permit
    ELSE /\ permit' = [permit EXCEPT ![k] = TRUE]
         /\ UNCHANGED <<ppc, waiters>>

----
\* A SharedFeedbackMap nobody has called yet.
AggInit ==
    /\ amap = [n \in Names |-> NoStatus]
    /\ acalls = <<>>

\* ScheduledUpdater::start has just spawned the loop: it sleeps for
\* no_update_timeout, update is false and start is true.
SchedInit ==
    /\ uloop = "run"
    /\ utimeout = NoUpdateTimeout
    /\ uleft = NoUpdateTimeout
    /\ uupdate = FALSE
    /\ ustart = TRUE
    /\ uupdated = FALSE
    /\ ustopped = FALSE
    /\ usig = FALSE
    /\ uevt = FALSE
    /\ uany = FALSE
    /\ uburst = 0
    /\ usince = 0
    /\ uidle = 0
    /\ ucb = [n |-> 0, count |-> 0, update |-> FALSE, burst |-> 0]

\* Every target has spawned its subprocess: filter_output starts with an
\* empty line, the watcher is watching.
ParseInit ==
    /\ pline = [t \in Parsers |-> <<>>]
    /\ pstate = [t \in Parsers |-> "read"]
    /\ plog = [t \in Parsers |-> <<>>]
    /\ pcalls = <<>>
    /\ perrs = <<>>
    /\ pwatch = [t \in Parsers |-> "on"]
    /\ pevents = 0
    /\ pchild = [t \in Parsers |-> "running"]

NoOutput == [success |-> FALSE, stderr |-> <<<<"none">>>>]

\* Target::run has been called for every target.
CalibInit ==
    /\ cstate = [t \in Parsers |-> "calib"]
    /\ cout = [t \in Parsers |-> NoOutput]
    /\ ctotals = <<>>
    /\ cchild = [t \in Parsers |-> "none"]

\* run_fuzzers has been called; no tool has been run, no task spawned.
FuzzInit ==
    /\ fpc = "checkout"
    /\ fcheckout = "none"
    /\ fbuild = "none"
    /\ ftask = [t \in Tasks |-> "none"]
    /\ fjoined = 0
    /\ flog = {}

\* Option<FuzzingStatus>.
None == [some |-> FALSE, status |-> <<>>]
Some(s) == [some |-> TRUE, status |-> s]

\* Entries of the directory of the branch; entry CurrentDir has the name of
\* the directory of the run being created.
Dirs == 1..NumDirs
CurrentDir == 1
NoDir == 0
Times == 1..MaxTime

\* Status files left by earlier runs.
PriorStatuses ==
    {[n \in Names |-> IF n = 1 THEN [total |-> 2, covered |-> 1, errors |-> 0]
                               ELSE NoStatus],
     [n \in Names |-> [total |-> 3, covered |-> 0, errors |-> 1]]}

\* An entry: missing, a plain file, or a directory with its creation time
\* and its hfuzz-status.toml.
DirEntries ==
    {[kind |-> "none", created |-> 1, status |-> NoFile],
     [kind |-> "file", created |-> 1, status |-> NoFile]}
    \cup {[kind |-> "dir", created |-> c, status |-> f] :
             c \in Times, f \in {NoFile} \cup {File(st) : st \in PriorStatuses}}

\* No run of the branch has left anything on disk yet.
HistInit ==
    /\ hparent = FALSE
    /\ hfs = [d \in Dirs |-> [kind |-> "none", created |-> 1, status |-> NoFile]]
    /\ hpc = "before"
    /\ hfound = NoDir
    /\ hprevious = None
    /\ hused = None
    /\ hwrites = 0

\* Names of the branches of the configuration, as the sequences of their
\* characters.
BranchNames == {<<"a">>, <<"a", "/", "b">>, <<"a", "_", "b">>}

\* No run of the branch is active.
NoPath == <<>>

\* No push has been received: the map "notifies" is empty.
DirInit ==
    /\ wentry = [b \in BranchNames |-> FALSE]
    /\ wpermit = [b \in BranchNames |-> FALSE]
    /\ wparked = [b \in BranchNames |-> 0]
    /\ wdir = [b \in BranchNames |-> NoPath]
    /\ wpushes = 0

\* A file that does not exist, and a file with its lines.
NoContent == [present |-> FALSE, lines |-> <<>>]
Content(lines) == [present |-> TRUE, lines |-> lines]

\* What a call has returned: nothing yet, Err, or Ok with an Option.
NotReturned == [returned |-> FALSE, err |-> FALSE, value |-> None]
ReturnedErr == [returned |-> TRUE, err |-> TRUE, value |-> None]
ReturnedOk(v) == [returned |-> TRUE, err |-> FALSE, value |-> v]

\* StoreSpec: a FuzzingStatus is a map from target names, which are strings,
\* to TargetStatus values.  The map without targets:
EmptyStatus == [n \in {} |-> NoStatus]

\* save_status has not been called.
StoreInit ==
    /\ epc = "before"
    /\ estatus = EmptyStatus
    /\ efile = NoContent
    /\ ebuf = NoContent
    /\ eloaded = NotReturned

\* A delta that is None.
NoDelta == [total |-> 0, covered |-> 0, errors |-> 0, trend |-> "absent"]
NoSummary == [lines |-> <<>>, changed |-> FALSE]

\* Report::update has not been called.
DiffInit ==
    /\ dpc = "before"
    /\ dcurr = [n \in Names |-> NoStatus]
    /\ dprev = None
    /\ dinit = None
    /\ dprun = None
    /\ dout = [panic |-> FALSE, diffs |-> <<>>, summary |-> NoSummary]

Init ==
    /\ AggInit
    /\ SchedInit
    /\ ParseInit
    /\ CalibInit
    /\ FuzzInit
    /\ HistInit
    /\ DiffInit
    /\ DirInit
    /\ StoreInit
    /\ registry = NoToken
    /\ permit = [k \in Tokens |-> FALSE]
    /\ waiters = [k \in Tokens |-> <<>>]
    /\ ppc = [p \in Pushes |-> "idle"]
    /\ ptok = [p \in Pushes |-> NoToken]
    /\ sawActive = [p \in Pushes |-> {}]
    /\ warned = [p \in Pushes |-> FALSE]
    /\ rpc = [r \in Runs |-> "none"]
    /\ signalled = [r \in Runs |-> 0]
    /\ lst = [r \in Runs |-> "none"]
    /\ tpc = [r \in Runs |-> [t \in Targets |-> "none"]]
    /\ child = [r \in Runs |-> [t \in Targets |-> "none"]]
    /\ tstop = [r \in Runs |-> [t \in Targets |-> FALSE]]
    /\ agg = [r \in Runs |-> EmptyMap]
    /\ spc = [r \in Runs |-> "none"]
    /\ supd = [r \in Runs |-> FALSE]
    /\ updPermit = [r \in Runs |-> FALSE]
    /\ stopPermit = [r \in Runs |-> FALSE]
    /\ inflight = [r \in Runs |-> {}]
    /\ disk = [r \in Runs |-> NoFile]
    /\ sent = [r \in Runs |-> "none"]

----
\* push_hook and get_sync

\* get_sync, the block under the read lock: an entry exists, the cancellation
\* is broadcast on it and the entry is returned with existing = true;
\* otherwise the read lock is released and the handler goes on to insert.
PushRead(p) ==
    /\ ppc[p] = "idle"
    /\ \A q \in Pushes : q < p => ppc[q] # "idle"
    /\ IF registry = NoToken
       THEN /\ ppc' = [ppc EXCEPT ![p] = "write"]
            /\ UNCHANGED <<ptok, sawActive, warned, lst, tstop>>
       ELSE /\ ppc' = [ppc EXCEPT ![p] = "wait"]
            /\ ptok' = [ptok EXCEPT ![p] = registry]
            /\ sawActive' = [sawActive EXCEPT ![p] =
                   {r \in OnToken(registry) : Active(r)}]
            /\ warned' = [warned EXCEPT ![p] = ~HasReceiver(registry)]
            /\ lst' = LstAfterSend(registry)
            /\ tstop' = TstopAfterSend(registry)
    /\ UNCHANGED <<tokVars, runVars, tpc, child, fbVars>>
    /\ UNCHANGED unitVars

\* get_sync, the block under the write lock: a new Synch is inserted,
\* replacing whatever entry the map holds, and returned with existing = false.
PushWrite(p) ==
    /\ ppc[p] = "write"
    /\ registry' = p
    /\ ptok' = [ptok EXCEPT ![p] = p]
    /\ ppc' = [ppc EXCEPT ![p] = "feedback"]
    /\ UNCHANGED <<permit, waiters, sawActive, warned, runVars, lst,
                   tgtVars, fbVars>>
    /\ UNCHANGED unitVars

\* push_hook that does not await the completion signal.
PushNotifiedNoWait(p) ==
    /\ ppc[p] = "wait"
    /\ ppc' = [ppc EXCEPT ![p] = "feedback"]
    /\ UNCHANGED <<tokVars, ptok, sawActive, warned, runVars, lst,
                   tgtVars, fbVars>>
    /\ UNCHANGED unitVars

\* push_hook: sync.notify.notified().await when existing.
PushNotified(p) ==
    /\ ppc[p] = "wait"
    /\ IF permit[ptok[p]]
       THEN /\ permit' = [permit EXCEPT ![ptok[p]] = FALSE]
            /\ ppc' = [ppc EXCEPT ![p] = "feedback"]
            /\ UNCHANGED waiters
       ELSE /\ waiters' = [waiters EXCEPT ![ptok[p]] = Append(@, p)]
            /\ ppc' = [ppc EXCEPT ![p] = "parked"]
            /\ UNCHANGED permit
    /\ UNCHANGED <<registry, ptok, sawActive, warned, runVars, lst,
                   tgtVars, fbVars>>
    /\ UNCHANGED unitVars

\* push_hook: create_feedback (the stop listener subscribes and is spawned),
\* then the run task is spawned; run_fuzzers starts with the checkout.
PushSpawn(p) ==
    /\ ppc[p] = "feedback"
    /\ ppc' = [ppc EXCEPT ![p] = "done"]
    /\ lst' = [lst EXCEPT ![p] = "listening"]
    /\ rpc' = [rpc EXCEPT ![p] = "checkout"]
    /\ UNCHANGED <<tokVars, ptok, sawActive, warned, signalled, tgtVars,
                   fbVars>>
    /\ UNCHANGED unitVars

\* push_hook: Feedback::new returns Err (Report::new cannot list the
\* directory of the branch, read the status file of the previous run or
\* build the URL) and create_feedback panics on expect: the handler unwinds
\* before the run task is spawned.
PushFeedbackFail(p) ==
    /\ ppc[p] = "feedback"
    /\ ppc' = [ppc EXCEPT ![p] = "panicked"]
    /\ UNCHANGED <<tokVars, ptok, sawActive, warned, runVars, lst, tgtVars,
                   fbVars>>
    /\ UNCHANGED unitVars

----
\* run task spawned by push_hook: run_fuzzers, then notify_one

\* The run task after run_fuzzers has returned: the result is logged and the
\* completion is signalled on the token's Notify.
RunComplete(r) ==
    /\ rpc' = [rpc EXCEPT ![r] = "done"]
    /\ signalled' = [signalled EXCEPT ![r] = @ + 1]
    /\ NotifyOne(ptok[r])

\* run_fuzzers: the working directory is removed and checked out anew.
RunCheckout(r) ==
    /\ rpc[r] = "checkout"
    /\ rpc' = [rpc EXCEPT ![r] = "prep"]
    /\ UNCHANGED <<tokVars, pushVars, signalled, lst, tgtVars, fbVars>>
    /\ UNCHANGED unitVars

\* A run task that signals completion only when run_fuzzers returns Ok.
RunFailSilent(r) ==
    /\ rpc[r] \in {"checkout", "prep"}
    /\ rpc' = [rpc EXCEPT ![r] = "done"]
    /\ UNCHANGED <<tokVars, pushVars, signalled, lst, tgtVars, fbVars>>
    /\ UNCHANGED unitVars

\* run_fuzzers returns Err before any target is spawned (the directory cannot
\* be removed, checkout.sh cannot be run, the corpus cannot be prepared).
RunFail(r) ==
    /\ rpc[r] \in {"checkout", "prep"}
    /\ RunComplete(r)
    /\ UNCHANGED <<registry, ptok, sawActive, warned, lst, tgtVars, fbVars>>
    /\ UNCHANGED unitVars

\* run_fuzzers: corpus, kcov and build are over; the target tasks are
\* spawned and feedback.started() starts the ScheduledUpdater loop.
RunPrep(r) ==
    /\ rpc[r] = "prep"
    /\ rpc' = [rpc EXCEPT ![r] = "join"]
    /\ tpc' = [tpc EXCEPT ![r] = [t \in Targets |-> "calib"]]
    /\ spc' = [spc EXCEPT ![r] = IF r \in Tracked THEN "run" ELSE @]
    /\ UNCHANGED <<tokVars, pushVars, signalled, lst, child, tstop, agg,
                   supd, updPermit, stopPermit, inflight, disk,
                   sent>>
    /\ UNCHANGED unitVars

\* Builder::kcov panics inside the run task (a project path without a file
\* name): the task unwinds and nothing after run_fuzzers is executed.
RunPanic(r) ==
    /\ rpc[r] = "prep"
    /\ rpc' = [rpc EXCEPT ![r] = "panicked"]
    /\ UNCHANGED <<tokVars, pushVars, signalled, lst, tgtVars, fbVars>>
    /\ UNCHANGED unitVars

\* run_fuzzers that returns without awaiting the handles of its tasks.
RunFinishNoJoin(r) ==
    /\ rpc[r] = "join"
    /\ RunComplete(r)
    /\ UNCHANGED <<registry, ptok, sawActive, warned, lst, tgtVars, fbVars>>
    /\ UNCHANGED unitVars

\* run_fuzzers: every handle has been awaited, Ok(()) is returned.
RunFinish(r) ==
    /\ rpc[r] = "join"
    /\ \A t \in Targets : tpc[r][t] = "ret"
    /\ RunComplete(r)
    /\ UNCHANGED <<registry, ptok, sawActive, warned, lst, tgtVars, fbVars>>
    /\ UNCHANGED unitVars

----
\* Target::run

\* get_total_coverage fails: run returns the error before set_total.
TargetCalibFail(r, t) ==
    /\ tpc[r][t] = "calib"
    /\ tpc' = [tpc EXCEPT ![r][t] = "ret"]
    /\ UNCHANGED <<tokVars, pushVars, runVars, lst, child, tstop, fbVars>>
    /\ UNCHANGED unitVars

\* get_total_coverage succeeds: set_total, the fuzzing subprocess is spawned
\* and only then the task subscribes to the stop broadcast.
TargetCalibOk(r, t) ==
    /\ tpc[r][t] = "calib"
    /\ \E total \in Totals : FeedbackUpdate(r, SetTotal(agg[r], t, total))
    /\ child' = [child EXCEPT ![r][t] = "running"]
    /\ tstop' = [tstop EXCEPT ![r][t] = FALSE]
    /\ tpc' = [tpc EXCEPT ![r][t] = "select"]
    /\ UNCHANGED <<tokVars, pushVars, runVars, lst, spc, supd, stopPermit,
                   inflight, disk,
                   sent>>
    /\ UNCHANGED unitVars

\* set_total, then the subprocess cannot be spawned: run returns the error.
TargetSpawnFail(r, t) ==
    /\ tpc[r][t] = "calib"
    /\ \E total \in Totals : FeedbackUpdate(r, SetTotal(agg[r], t, total))
    /\ tpc' = [tpc EXCEPT ![r][t] = "ret"]
    /\ UNCHANGED <<tokVars, pushVars, runVars, lst, child, tstop, spc, supd,
                   stopPermit, inflight, disk,
                   sent>>
    /\ UNCHANGED unitVars

\* The subprocess is spawned, then watch_report fails: run returns the error
\* and the Child is dropped, which kills the subprocess (kill_on_drop).
TargetWatchFail(r, t) ==
    /\ tpc[r][t] = "calib"
    /\ \E total \in Totals : FeedbackUpdate(r, SetTotal(agg[r], t, total))
    /\ child' = [child EXCEPT ![r][t] = "exited"]
    /\ tpc' = [tpc EXCEPT ![r][t] = "ret"]
    /\ UNCHANGED <<tokVars, pushVars, runVars, lst, tstop, spc, supd,
                   stopPermit, inflight, disk,
                   sent>>
    /\ UNCHANGED unitVars

\* filter_output reads a coverage line with a nonzero count.
OutputLine(r, t) ==
    /\ tpc[r][t] = "select"
    /\ r \in Tracked
    /\ \E e \in EdgeVals :
        /\ agg[r][t].covered + e <= MaxCov
        /\ FeedbackUpdate(r, AddCovered(agg[r], t, e))
    /\ UNCHANGED <<tokVars, pushVars, runVars, lst, tgtVars, spc, supd,
                   stopPermit, inflight, disk,
                   sent>>
    /\ UNCHANGED unitVars

\* The select! completes with filter_output: end of the stream, a read error
\* or a coverage line that does not parse.  The stop branch is dropped.
FilterEnd(r, t) ==
    /\ tpc[r][t] = "select"
    /\ tpc' = [tpc EXCEPT ![r][t] = "wait"]
    /\ UNCHANGED <<tokVars, pushVars, runVars, lst, child, tstop, fbVars>>
    /\ UNCHANGED unitVars

\* The select! completes with stop.recv(): child.kill().await.
TargetStop(r, t) ==
    /\ tpc[r][t] = "select"
    /\ tstop[r][t]
    /\ child' = [child EXCEPT ![r][t] = "exited"]
    /\ tpc' = [tpc EXCEPT ![r][t] = "wait"]
    /\ UNCHANGED <<tokVars, pushVars, runVars, lst, tstop, fbVars>>
    /\ UNCHANGED unitVars

\* child.wait().await returns once the subprocess has exited; run returns
\* and its stop receiver is dropped.
TargetWait(r, t) ==
    /\ tpc[r][t] = "wait"
    /\ child[r][t] = "exited"
    /\ tpc' = [tpc EXCEPT ![r][t] = "ret"]
    /\ tstop' = [tstop EXCEPT ![r][t] = FALSE]
    /\ UNCHANGED <<tokVars, pushVars, runVars, lst, child, fbVars>>
    /\ UNCHANGED unitVars

\* The fuzzing subprocess exits on its own.
ChildExit(r, t) ==
    /\ child[r][t] = "running"
    /\ child' = [child EXCEPT ![r][t] = "exited"]
    /\ UNCHANGED <<tokVars, pushVars, runVars, lst, tpc, tstop, fbVars>>
    /\ UNCHANGED unitVars

----
\* Feedback and ScheduledUpdater

\* create_feedback's task: stop.recv() returns, feedback.stopped().
ListenerStop(r) ==
    /\ lst[r] = "pending"
    /\ lst' = [lst EXCEPT ![r] = "done"]
    /\ stopPermit' = [stopPermit EXCEPT ![r] = (r \in Tracked)]
    /\ UNCHANGED <<tokVars, pushVars, runVars, tgtVars, agg, spc, supd,
                   updPermit, inflight, disk,
                   sent>>
    /\ UNCHANGED unitVars

\* select! branch updated.notified().
SchedUpdate(r) ==
    /\ spc[r] = "run"
    /\ updPermit[r]
    /\ updPermit' = [updPermit EXCEPT ![r] = FALSE]
    /\ supd' = [supd EXCEPT ![r] = TRUE]
    /\ UNCHANGED <<tokVars, pushVars, runVars, lst, tgtVars, agg, spc,
                   stopPermit, inflight, disk,
                   sent>>
    /\ UNCHANGED unitVars

\* The callback of Feedback::started without the early return on !update.
SchedTimerAlwaysSnapshot(r) ==
    /\ spc[r] = "run"
    /\ inflight' = [inflight EXCEPT ![r] = @ \cup {Snapshot(agg[r])}]
    /\ supd' = [supd EXCEPT ![r] = FALSE]
    /\ UNCHANGED <<tokVars, pushVars, runVars, lst, tgtVars, agg, spc,
                   updPermit, stopPermit, disk, sent>>
    /\ UNCHANGED unitVars

\* select! branch sleep(timeout): the callback of Feedback::started.  Without
\* an update it only sends a message; with one it takes a snapshot and
\* spawns report.update on it.
SchedTimer(r) ==
    /\ spc[r] = "run"
    /\ IF supd[r]
       THEN /\ inflight' = [inflight EXCEPT ![r] = @ \cup {Snapshot(agg[r])}]
            /\ supd' = [supd EXCEPT ![r] = FALSE]
            /\ UNCHANGED sent
       ELSE /\ sent' = [sent EXCEPT ![r] = "noupdate"]
            /\ UNCHANGED <<inflight, supd>>
    /\ UNCHANGED <<tokVars, pushVars, runVars, lst, tgtVars, agg, spc,
                   updPermit, stopPermit, disk>>
    /\ UNCHANGED unitVars

\* select! branch stopped.notified(): the loop returns.
SchedStop(r) ==
    /\ spc[r] = "run"
    /\ stopPermit[r]
    /\ stopPermit' = [stopPermit EXCEPT ![r] = FALSE]
    /\ spc' = [spc EXCEPT ![r] = "stopped"]
    /\ UNCHANGED <<tokVars, pushVars, runVars, lst, tgtVars, agg, supd,
                   updPermit, inflight, disk,
                   sent>>
    /\ UNCHANGED unitVars

\* Report::update run by a spawned task: the status file is overwritten with
\* the snapshot the task was given, and the message is sent with the summary.
ReportWrite(r, s) ==
    /\ s \in inflight[r]
    /\ disk' = [disk EXCEPT ![r] = File(s)]
    /\ sent' = [sent EXCEPT ![r] = "summary"]
    /\ inflight' = [inflight EXCEPT ![r] = @ \ {s}]
    /\ UNCHANGED <<tokVars, pushVars, runVars, lst, tgtVars, agg, spc, supd,
                   updPermit, stopPermit>>
    /\ UNCHANGED unitVars

----
\* Steps of the tasks of the program.
\* A failure of Report::update that ends the loop of the ScheduledUpdater.
ReportFailStopsLoop(r, s, saved) ==
    /\ s \in inflight[r]
    /\ disk' = IF saved THEN [disk EXCEPT ![r] = File(s)] ELSE disk
    /\ sent' = [sent EXCEPT ![r] = "plain"]
    /\ inflight' = [inflight EXCEPT ![r] = @ \ {s}]
    /\ spc' = [spc EXCEPT ![r] = "stopped"]
    /\ UNCHANGED <<tokVars, pushVars, runVars, lst, tgtVars, agg, supd,
                   updPermit, stopPermit>>
    /\ UNCHANGED unitVars

\* Report::update returns Err (a file cannot be read, written or rendered):
\* the error is logged and the message is sent without a summary.  The status
\* file is written when the error comes after save_status.
ReportFail(r, s, saved) ==
    /\ s \in inflight[r]
    /\ disk' = IF saved THEN [disk EXCEPT ![r] = File(s)] ELSE disk
    /\ sent' = [sent EXCEPT ![r] = "plain"]
    /\ inflight' = [inflight EXCEPT ![r] = @ \ {s}]
    /\ UNCHANGED <<tokVars, pushVars, runVars, lst, tgtVars, agg, spc, supd,
                   updPermit, stopPermit>>
    /\ UNCHANGED unitVars

TaskStep ==
    \/ \E p \in Pushes : PushWrite(p) \/ PushNotified(p) \/ PushSpawn(p)
    \/ \E r \in Runs : RunCheckout(r) \/ RunPrep(r) \/ RunFinish(r)
    \/ \E r \in Runs, t \in Targets :
           TargetCalibOk(r, t) \/ TargetStop(r, t) \/ TargetWait(r, t)
    \/ \E r \in Runs : ListenerStop(r) \/ SchedUpdate(r) \/ SchedStop(r)
    \/ \E r \in Runs : SchedTimer(r)
    \/ \E r \in Runs : \E s \in inflight[r] : ReportWrite(r, s)

\* Events that come from outside the tasks: pushes, failures of external
\* tools, output and exit of the fuzzing subprocesses.
EnvStep ==
    \/ \E p \in Pushes : PushRead(p)
    \/ \E p \in Pushes : PushFeedbackFail(p)
    \/ \E r \in Runs : RunFail(r) \/ RunPanic(r)
    \/ \E r \in Runs, t \in Targets :
           \/ TargetCalibFail(r, t)
           \/ TargetSpawnFail(r, t)
           \/ TargetWatchFail(r, t)
           \/ OutputLine(r, t)
           \/ FilterEnd(r, t)
           \/ ChildExit(r, t)
    \/ \E r \in Runs : \E s \in inflight[r], saved \in BOOLEAN :
           ReportFail(r, s, saved)

Next == TaskStep \/ EnvStep

Spec == Init /\ [][Next]_vars

\* The runtime schedules every task that can take a step.
FairSpec == Spec /\ WF_vars(TaskStep)

----
\* SharedFeedbackMap under any sequence of calls

AggCall(c) ==
    /\ Len(acalls) < MaxCalls
    /\ acalls' = Append(acalls, c)
    /\ UNCHANGED notAggVars

AggSetTotal(n) ==
    \E total \in AggTotals :
        /\ AggCall([op |-> "set_total", target |-> n, value |-> total])
        /\ amap' = SetTotal(amap, n, total)

AggAddCovered(n) ==
    \E covered \in EdgeVals :
        /\ AggCall([op |-> "add_covered", target |-> n, value |-> covered])
        /\ amap' = AddCovered(amap, n, covered)

AggAddErrors(n) ==
    \E errors \in EdgeVals :
        /\ AggCall([op |-> "add_errors", target |-> n, value |-> errors])
        /\ amap' = AddErrors(amap, n, errors)

AggNext ==
    \E n \in Names : AggSetTotal(n) \/ AggAddCovered(n) \/ AggAddErrors(n)

AggSpec == Init /\ [][AggNext]_vars

----
\* ScheduledUpdater::start, the spawned loop, with time.  A time unit passes
\* only when no branch of the select! is ready: the loop takes a ready branch
\* at once.  The sleep is created anew by every pass of the loop, so every
\* branch taken arms it again with the current timeout.

LongestTimeout ==
    IF StartTimeout >= UpdateTimeout /\ StartTimeout >= NoUpdateTimeout
    THEN StartTimeout
    ELSE IF UpdateTimeout >= NoUpdateTimeout THEN UpdateTimeout
         ELSE NoUpdateTimeout

\* Elapsed times are followed up to one unit past the longest timeout.
Later(d) == IF d > LongestTimeout THEN d ELSE d + 1

\* One time unit passes.
UTick ==
    /\ uloop = "run"
    /\ uleft > 0
    /\ ~uupdated
    /\ ~ustopped
    /\ uleft' = uleft - 1
    /\ usince' = Later(usince)
    /\ uidle' = Later(uidle)
    /\ uevt' = FALSE
    /\ UNCHANGED <<uloop, utimeout, uupdate, ustart, uupdated, ustopped,
                   usig, uany, uburst, ucb>>
    /\ UNCHANGED notSchedVars

\* ScheduledUpdater::update: updated.notify_one().
UUpdate ==
    /\ ~uevt
    /\ uupdated' = TRUE
    /\ uevt' = TRUE
    /\ uany' = TRUE
    /\ uburst' = IF uburst < 2 THEN uburst + 1 ELSE uburst
    /\ usince' = 0
    /\ UNCHANGED <<uloop, utimeout, uleft, uupdate, ustart, ustopped, usig,
                   uidle, ucb>>
    /\ UNCHANGED notSchedVars

\* ScheduledUpdater::stop: stopped.notify_one().
UStop ==
    /\ ~usig
    /\ ustopped' = TRUE
    /\ usig' = TRUE
    /\ UNCHANGED <<uloop, utimeout, uleft, uupdate, ustart, uupdated, uevt,
                   uany, uburst, usince, uidle, ucb>>
    /\ UNCHANGED notSchedVars

\* The sleep branch leaving update_timeout armed after the callback.
USleepBranchRearmUpdate ==
    /\ uloop = "run"
    /\ uleft = 0
    /\ ucb' = [n |-> 1 - ucb.n,
               count |-> IF ucb.count < 2 THEN ucb.count + 1 ELSE ucb.count,
               update |-> uupdate, burst |-> uburst]
    /\ uupdate' = FALSE
    /\ utimeout' = UpdateTimeout
    /\ ustart' = FALSE
    /\ uleft' = UpdateTimeout
    /\ uburst' = IF uupdated THEN 1 ELSE 0
    /\ uidle' = 0
    /\ UNCHANGED <<uloop, uupdated, ustopped, usig, uevt, uany, usince>>
    /\ UNCHANGED notSchedVars

\* select! branch sleep(timeout): the callback is invoked with the local
\* update, then update = false, timeout = no_update_timeout, start = false.
USleepBranch ==
    /\ uloop = "run"
    /\ uleft = 0
    /\ ucb' = [n |-> 1 - ucb.n,
               count |-> IF ucb.count < 2 THEN ucb.count + 1 ELSE ucb.count,
               update |-> uupdate, burst |-> uburst]
    /\ uupdate' = FALSE
    /\ utimeout' = NoUpdateTimeout
    /\ ustart' = FALSE
    /\ uleft' = NoUpdateTimeout
    /\ uburst' = IF uupdated THEN 1 ELSE 0
    /\ uidle' = 0
    /\ UNCHANGED <<uloop, uupdated, ustopped, usig, uevt, uany, usince>>
    /\ UNCHANGED notSchedVars

\* The updated branch with a sleep that outlives the pass of the loop: the
\* new timeout is used only by the next sleep.
UUpdatedBranchKeepSleep ==
    /\ uloop = "run"
    /\ uupdated
    /\ uupdated' = FALSE
    /\ uupdate' = TRUE
    /\ utimeout' = IF ustart THEN StartTimeout ELSE UpdateTimeout
    /\ UNCHANGED <<uloop, uleft, ustart, ustopped, usig, uevt, uany, uburst, usince,
                   uidle, ucb>>
    /\ UNCHANGED notSchedVars

\* select! branch updated.notified(): update = true and the timeout becomes
\* start_timeout if start, update_timeout otherwise.
UUpdatedBranch ==
    /\ uloop = "run"
    /\ uupdated
    /\ uupdated' = FALSE
    /\ uupdate' = TRUE
    /\ utimeout' = IF ustart THEN StartTimeout ELSE UpdateTimeout
    /\ uleft' = IF ustart THEN StartTimeout ELSE UpdateTimeout
    /\ UNCHANGED <<uloop, ustart, ustopped, usig, uevt, uany, uburst, usince,
                   uidle, ucb>>
    /\ UNCHANGED notSchedVars

\* select! branch stopped.notified(): the loop returns.
UStoppedBranch ==
    /\ uloop = "run"
    /\ ustopped
    /\ uloop' = "stopped"
    /\ ustopped' = FALSE
    /\ UNCHANGED <<utimeout, uleft, uupdate, ustart, uupdated, usig, uevt,
                   uany, uburst, usince, uidle, ucb>>
    /\ UNCHANGED notSchedVars

SchedLoop == USleepBranch \/ UUpdatedBranch \/ UStoppedBranch

SchedNext == UTick \/ UUpdate \/ UStop \/ SchedLoop

SchedSpec == Init /\ [][SchedNext]_vars

\* Time goes on and the runtime runs the loop when a branch is ready.
FairSchedSpec == SchedSpec /\ WF_vars(UTick) /\ WF_vars(SchedLoop)

----------------------------------------------------------------------------
\* The output filter and the report watcher of one target on their own.
\* A line is the sequence of its pieces: the marker a coverage line of
\* honggfuzz starts with, the separator "/", digits, other text, and the
\* line feed read_line leaves at its end.

Marker == "Sz:"
Separator == "/"
Digits == {"0", "1"}
DigitValue(c) == IF c = "0" THEN 0 ELSE 1

\* A coverage line with 9th field e and one more field after it.
StatLine(e) ==
    <<Marker>> \o [i \in 1..8 |-> Separator] \o e \o <<Separator, "\n">>

ZeroLine == StatLine(<<"0">>)
EdgeLine == StatLine(<<"1">>)
TextLine == StatLine(<<"x">>)
\* A coverage line that ends with its 9th field.
ZeroEndLine == <<Marker>> \o [i \in 1..8 |-> Separator] \o <<"0", "\n">>
\* A coverage line with two fields.
ShortLine == <<Marker, Separator, "\n">>
\* The line honggfuzz prints when it has saved a crashing input.
CrashLine == <<"Crash: saved as ", "'", "foo.bin", "'", "\n">>
OtherLine == <<"x", "\n">>

Lines ==
    {ZeroLine, EdgeLine, TextLine, ZeroEndLine, ShortLine, CrashLine,
     OtherLine}

\* str::split("/").
RECURSIVE Split(_)
Split(s) ==
    IF s = <<>> THEN << <<>> >>
    ELSE LET rest == Split(Tail(s))
         IN  IF Head(s) = Separator THEN << <<>> >> \o rest
             ELSE << <<Head(s)>> \o Head(rest) >> \o Tail(rest)

NoField == <<"None">>
\* line.split("/").skip(8).next().
NinthField(s) ==
    LET f == Split(s) IN IF Len(f) >= 9 THEN f[9] ELSE NoField

NoNumber == -1
RECURSIVE Decimal(_)
Decimal(f) ==
    IF f = <<>> THEN 0
    ELSE 10 * Decimal(SubSeq(f, 1, Len(f) - 1)) + DigitValue(f[Len(f)])

\* str::parse::<u32>.
ParseU32(f) ==
    IF f # <<>> /\ \A i \in 1..Len(f) : f[i] \in Digits THEN Decimal(f)
    ELSE NoNumber

\* The body of the loop without the case e == "0".
FilterLineParseZero(buf) ==
    IF Head(buf) # Marker THEN [line |-> <<>>, add |-> <<>>, run |-> TRUE]
    ELSE LET e == NinthField(buf)
         IN  IF e = NoField \/ ParseU32(e) = NoNumber
             THEN [line |-> buf, add |-> <<>>, run |-> FALSE]
             ELSE [line |-> <<>>, add |-> <<ParseU32(e)>>, run |-> TRUE]

\* The body of the loop of filter_output on the line buffer read_line has
\* appended to: the buffer it leaves, the add_covered call it makes, and
\* whether the loop goes on.  "continue" skips line.clear().
FilterLine(buf) ==
    IF Head(buf) # Marker THEN [line |-> <<>>, add |-> <<>>, run |-> TRUE]
    ELSE LET e == NinthField(buf)
         IN  IF e = NoField
             THEN [line |-> buf, add |-> <<>>, run |-> FALSE]
             ELSE IF e = <<"0">>
             THEN [line |-> buf, add |-> <<>>, run |-> TRUE]
             ELSE IF ParseU32(e) = NoNumber
             THEN [line |-> buf, add |-> <<>>, run |-> FALSE]
             ELSE [line |-> <<>>, add |-> <<ParseU32(e)>>, run |-> TRUE]

\* Number of lines read so far from the streams of the targets in S.
RECURSIVE LinesRead(_)
LinesRead(S) ==
    IF S = {} THEN 0
    ELSE LET t == CHOOSE x \in S : TRUE
         IN  Len(plog[t]) + LinesRead(S \ {t})

\* read_line appends a line of the stream to the buffer and the body runs.
PReadLine(t, l) ==
    /\ pstate[t] = "read"
    /\ LinesRead(Parsers) < MaxLines
    /\ LET r == FilterLine(pline[t] \o l)
       IN  /\ pline' = [pline EXCEPT ![t] = r.line]
           /\ pcalls' = pcalls \o [i \in 1..Len(r.add) |->
                                     [target |-> t, covered |-> r.add[i]]]
           /\ pstate' = [pstate EXCEPT ![t] = IF r.run THEN "read" ELSE "done"]
    /\ plog' = [plog EXCEPT ![t] = Append(@, l)]
    /\ UNCHANGED <<perrs, pwatch, pevents, pchild>>
    /\ UNCHANGED notParseVars

\* read_line returns 0 (end of the stream) or an error: the loop ends.
PReadEnd(t) ==
    /\ pstate[t] = "read"
    /\ pstate' = [pstate EXCEPT ![t] = "done"]
    /\ UNCHANGED <<pline, plog, pcalls, perrs, pwatch, pevents, pchild>>
    /\ UNCHANGED notParseVars

\* The fuzzing subprocess of the target exits on its own.
PChildExit(t) ==
    /\ pchild[t] = "running"
    /\ pchild' = [pchild EXCEPT ![t] = "exited"]
    /\ UNCHANGED <<pline, pstate, plog, pcalls, perrs, pwatch, pevents>>
    /\ UNCHANGED notParseVars

WatchEvents == {"create_report", "write_report", "write_other", "remove_dir"}

\* The watcher task receives an event on the workspace directory of the
\* target: HONGGFUZZ.REPORT.TXT created or written counts one error, the
\* removal of the directory ends the task.
PWatchEvent(t, ev) ==
    /\ pwatch[t] = "on"
    /\ pevents < MaxEvents
    /\ pevents' = pevents + 1
    /\ perrs' = IF ev \in {"create_report", "write_report"}
                THEN Append(perrs, [target |-> t, errors |-> 1]) ELSE perrs
    /\ pwatch' = [pwatch EXCEPT ![t] = IF ev = "remove_dir" THEN "off" ELSE "on"]
    /\ UNCHANGED <<pline, pstate, plog, pcalls, pchild>>
    /\ UNCHANGED notParseVars

ParseNext ==
    \/ \E t \in Parsers, l \in Lines : PReadLine(t, l)
    \/ \E t \in Parsers : PReadEnd(t)
    \/ \E t \in Parsers : PChildExit(t)
    \/ \E t \in Parsers, ev \in WatchEvents : PWatchEvent(t, ev)

ParseSpec == Init /\ [][ParseNext]_vars

----
\* Properties

\* The push found an entry in the registry (get_sync returned existing = true).
Existing(p) == ptok[p] \notin {NoToken, p}

Launched(r) == rpc[r] # "none"

\* C1: at every instant at most one run of the branch is active (launched
\* and not yet signalled complete), whatever the interleaving of the pushes.
C1_AtMostOneActiveRun == Cardinality({r \in Runs : Active(r)}) <= 1

\* C2: a push that broadcast the cancellation on the branch's token while a
\* run was active on it starts its own run's checkout only after that run
\* has signalled completion: cancel, then completion, then checkout.
C2_CheckoutAfterCompletion ==
    \A p \in Pushes :
        (Existing(p) /\ Launched(p)) =>
            \A r \in sawActive[p] : signalled[r] >= 1 /\ ~Active(r)

C2_Witness ==
    \E p \in Pushes :
        /\ Existing(p)
        /\ rpc[p] = "checkout"
        /\ sawActive[p] # {}

\* C5: a run task whose run_fuzzers call has returned has signalled
\* completion exactly once, and no run signals before it has ended (its
\* target tasks have all returned).
C5_SignalsOnceAfterEnd ==
    \A r \in Runs :
        /\ signalled[r] <= 1
        /\ (rpc[r] = "done") <=> (signalled[r] = 1)
        /\ signalled[r] = 1 => \A t \in Targets : tpc[r][t] \in {"none", "ret"}

C5_Witness ==
    /\ \E r \in Runs : rpc[r] = "done" /\ \A t \in Targets : tpc[r][t] = "ret"
    /\ \E r \in Runs : rpc[r] = "done" /\ \A t \in Targets : tpc[r][t] = "none"

\* C6: a run task that has panicked has still fired the completion
\* notification of its token.
C6_PanicStillSignals ==
    \A r \in Runs : rpc[r] = "panicked" => signalled[r] >= 1

\* The runs of the token have all signalled completion and no other push is
\* between get_sync and the spawn of its run on it.
PreviousRunsCompleted(p) ==
    /\ \E r \in OnToken(ptok[p]) : Launched(r)
    /\ \A r \in OnToken(ptok[p]) : Launched(r) => rpc[r] = "done"
    /\ \A q \in OnToken(ptok[p]) \ {p} : ppc[q] = "done"

\* C8: a push that comes to the wait for the completion signal when the
\* previous runs of the token have completed finds the notification stored
\* and goes on without parking, whether or not its cancellation send found
\* a receiver.
C8_NoBlockAfterCompletion ==
    \A p \in Pushes :
        (ppc[p] = "wait" /\ PreviousRunsCompleted(p)) => permit[ptok[p]]

\* A push has come out of get_sync with the token of a run that had completed
\* before the push broadcast, and is about to await the completion signal.
C8_Witness ==
    \E p \in Pushes :
        /\ ppc[p] = "wait"
        /\ sawActive[p] = {}
        /\ PreviousRunsCompleted(p)
        /\ permit[ptok[p]]

\* A cancellation has been broadcast on the run's token since its stop
\* listener subscribed.
Cancelled(r) == lst[r] \in {"pending", "done"}

\* C3: a target that has a cancellation pending while its subprocess runs
\* and its output is parsed leaves the select! only with the subprocess
\* killed.
C3_CancelKillsSubprocess ==
    [][\A r \in Runs, t \in Targets :
        (tpc[r][t] = "select" /\ tstop[r][t] /\ child[r][t] = "running")
            => (tpc'[r][t] = "select" \/ child'[r][t] = "exited")]_vars

\* C4: no run that was sent a cancellation stays active for ever; a target
\* that holds the cancellation in its receiver and waits for a subprocess it
\* did not kill is left aside, so that what remains is the cancellation
\* broadcast before the targets subscribed.
C4_EarlyCancelCompletes ==
    \A r \in Runs :
        []<>(\/ ~(Active(r) /\ Cancelled(r))
             \/ \E t \in Targets : tpc[r][t] = "wait" /\ tstop[r][t])

\* C7: no push stays parked on the completion signal for ever, unless a run
\* that was sent a cancellation does not terminate or a run task panicked.
C7_ParkedPushProceeds ==
    \A p \in Pushes :
        []<>(\/ ppc[p] # "parked"
             \/ \E r \in Runs : rpc[r] = "panicked"
             \/ \E r \in Runs : Active(r) /\ Cancelled(r))

\* The status file holds what the map holds (nothing, as long as the map
\* is empty).
Persisted(r) ==
    IF agg[r] = EmptyMap THEN disk[r] = NoFile
    ELSE disk[r] = File(Snapshot(agg[r]))

\* C9: when a run has signalled completion its status file reflects the
\* final state of its map.
C9_SnapshotFlushedAtCompletion ==
    \A r \in Tracked : signalled[r] >= 1 => Persisted(r)

\* C18: a callback without an update only sends the "no coverage updates"
\* message, leaving the snapshots in flight and the status file as they are;
\* a callback with an update takes the snapshot of the map at that moment and
\* hands it to a report task without writing itself; the status file is only
\* ever overwritten with a snapshot so taken, and the summary is only sent
\* along with such a write.
C18_CallbackByHadUpdate ==
    [][\A r \in Tracked :
        /\ (sent'[r] # sent[r] /\ sent'[r] = "noupdate")
               => ~supd[r] /\ inflight'[r] = inflight[r] /\ disk'[r] = disk[r]
        /\ ~(inflight'[r] \subseteq inflight[r])
               => /\ supd[r]
                  /\ inflight'[r] = inflight[r] \cup {Snapshot(agg[r])}
                  /\ disk'[r] = disk[r] /\ sent'[r] = sent[r]
        /\ (supd[r] /\ ~supd'[r])
               => Snapshot(agg[r]) \in inflight'[r] /\ disk'[r] = disk[r]
        /\ disk'[r] # disk[r]
               => \E s \in inflight[r] :
                      disk'[r] = File(s) /\ sent'[r] \in {"summary", "plain"}
        /\ (sent'[r] # sent[r] /\ sent'[r] = "summary")
               => \E s \in inflight[r] :
                      disk'[r] = File(s) /\ s \notin inflight'[r]]_vars

\* A snapshot was persisted and its summary delivered, and a later callback
\* without an update has sent its message.
C18_Witness ==
    \E r \in Tracked :
        /\ sent[r] = "noupdate"
        /\ disk[r] # NoFile
        /\ inflight[r] = {}

\* C10: once the subprocesses of a run have terminated and its completion
\* has been signalled, its status file is not written again.
C10_NoWriteAfterCompletion ==
    [][\A r \in Tracked :
        (signalled[r] >= 1 /\ \A t \in Targets : child[r][t] # "running")
            => disk'[r] = disk[r]]_vars

----
\* Properties of SharedFeedbackMap, read off the log of calls

\* Positions of the log at which set_total was called for the target.
Registrations(log, n) ==
    {i \in 1..Len(log) : log[i].op = "set_total" /\ log[i].target = n}

\* The call at position i was made for a target that set_total had
\* registered before.
AppliedAt(log, i) == \E j \in Registrations(log, log[i].target) : j < i

RECURSIVE SumApplied(_, _, _, _)
\* Sum of the deltas of the calls op applied to the target in log[1..i].
SumApplied(log, n, op, i) ==
    IF i = 0 THEN 0
    ELSE SumApplied(log, n, op, i - 1)
         + (IF log[i].op = op /\ log[i].target = n /\ AppliedAt(log, i)
            THEN log[i].value ELSE 0)

LastTotal(log, n) ==
    LET regs == Registrations(log, n)
    IN  log[CHOOSE i \in regs : \A j \in regs : j <= i].value

\* C11: the snapshot holds, for every registered target, the last total set
\* and the sums of all the covered and errors deltas applied to it, and no
\* entry for the others.
C11_SnapshotIsCumulative ==
    \A n \in Names :
        IF Registrations(acalls, n) = {}
        THEN Snapshot(amap)[n] = NoStatus
        ELSE Snapshot(amap)[n] =
                 [total |-> LastTotal(acalls, n),
                  covered |-> SumApplied(acalls, n, "add_covered", Len(acalls)),
                  errors |-> SumApplied(acalls, n, "add_errors", Len(acalls))]

\* C12: no call on the map makes the covered or the errors counter of a
\* registered target smaller.
C12_CountersNeverDecrease ==
    [][\A n \in Names :
        amap[n] # NoStatus =>
            /\ amap'[n].covered >= amap[n].covered
            /\ amap'[n].errors >= amap[n].errors]_vars

\* C13: add_covered and add_errors for a target that set_total never
\* registered leave the whole map as it was: no entry appears and no other
\* target's counters change.
C13_UnknownTargetNoOp ==
    [][\A n \in Names :
        (/\ acalls' # acalls
         /\ acalls'[Len(acalls')].op \in {"add_covered", "add_errors"}
         /\ acalls'[Len(acalls')].target = n
         /\ amap[n] = NoStatus) => amap' = amap]_vars

\* The last call was an add for a target without an entry, made while
\* another target had counted something.
C13_Witness ==
    /\ acalls # <<>>
    /\ acalls[Len(acalls)].op \in {"add_covered", "add_errors"}
    /\ amap[acalls[Len(acalls)].target] = NoStatus
    /\ \E n \in Names : amap[n] # NoStatus /\ amap[n].covered > 0

----
\* Properties of the ScheduledUpdater loop

\* The grace period an update arms: start_timeout as long as no callback
\* has fired, update_timeout afterwards.
Grace == IF ucb.count = 0 THEN StartTimeout ELSE UpdateTimeout

\* The step invokes the callback.
CallbackStep == ucb'.n # ucb.n

\* C14: after update() calls, each less than the armed grace period after
\* the one before, the sleep is armed to expire one grace period after the
\* last call (start_timeout before the first callback, update_timeout after
\* it); the callback that fires then has hadUpdate = true, and the callback
\* after it has not unless update() is called again.
C14_OneCallbackPerBurst ==
    /\ [](uloop = "run" /\ uupdate /\ ~uupdated => uleft + usince = Grace)
    /\ [][CallbackStep /\ ~uupdated =>
            /\ ucb'.update = (uburst > 0)
            /\ uburst > 0 => usince = Grace]_vars

\* A callback has just fired for a burst of several update() calls that came
\* after an earlier callback.
C14_Witness ==
    /\ uidle = 0
    /\ ucb.update
    /\ ucb.burst = 2
    /\ ucb.count = 2
    /\ ~usig

\* C15: as long as update() is never called, every callback comes
\* no_update_timeout after the one before (the first one after the start)
\* with hadUpdate = false, and until stop() is called there is always a
\* next one.
C15_HeartbeatEveryNoUpdateTimeout ==
    /\ [](~uany /\ uloop = "run" => uidle + uleft = NoUpdateTimeout)
    /\ [][CallbackStep /\ ~uany =>
            ~ucb'.update /\ uidle = NoUpdateTimeout]_vars
    /\ []<>(uany \/ usig \/ uidle = 0)

\* A second callback in a row has just fired without any update() call.
C15_Witness ==
    /\ ~uany
    /\ ~usig
    /\ uidle = 0
    /\ ucb.count = 2
    /\ ~ucb.update

\* C16: once stop() has been called the callback is not invoked any more.
C16_NoCallbackAfterStop == [][usig => ~CallbackStep]_vars

\* C17: until stop() is called there is always a next callback, whatever
\* the update() calls.
C17_CallbackEventuallyFires == []<>(usig \/ uidle = 0)


----------------------------------------------------------------------------
\* The head of Target::run on its own: the calibration run, set_total and
\* the spawn of the fuzzing subprocess.  The output of the calibration run
\* is its exit status and its stderr as the sequence of its lines, a line
\* being the sequence of its pieces.

Trailer == "guard_nb:"
Space == " "

\* The last line honggfuzz prints, with n as the number of guards.
TrailerLine(n) == <<"x", Trailer>> \o n \o <<Space, "x">>

CalibOutputs ==
    {[success |-> TRUE, stderr |-> <<<<"x">>, TrailerLine(<<"1">>)>>],
     [success |-> TRUE, stderr |-> <<TrailerLine(<<"1", "0">>), <<>>, <<>>>>],
     [success |-> FALSE, stderr |-> <<TrailerLine(<<"1">>)>>],
     [success |-> TRUE, stderr |-> <<>>],
     [success |-> TRUE, stderr |-> <<<<>>, <<>>>>],
     [success |-> TRUE, stderr |-> <<<<"x">>>>],
     [success |-> TRUE, stderr |-> <<TrailerLine(<<"1">>), <<"x">>>>],
     [success |-> TRUE, stderr |-> <<TrailerLine(<<"x">>)>>],
     [success |-> TRUE, stderr |-> <<TrailerLine(<<>>)>>],
     [success |-> TRUE, stderr |-> <<<<"x", Trailer, "1">>>>]}

NoLine == <<"None">>
\* stderr.split(0x0a).rev().find(|s| !s.is_empty()).
LastNonEmpty(lines) ==
    LET I == {i \in 1..Len(lines) : lines[i] # <<>>}
    IN  IF I = {} THEN NoLine
        ELSE lines[CHOOSE i \in I : \A j \in I : j <= i]

NoPart == <<"None">>
\* s.split_once(sep): what follows the first sep.
AfterFirst(s, sep) ==
    LET I == {i \in 1..Len(s) : s[i] = sep}
    IN  IF I = {} THEN NoPart
        ELSE SubSeq(s, (CHOOSE i \in I : \A j \in I : i <= j) + 1, Len(s))

\* s.split_once(sep): what precedes the first sep.
BeforeFirst(s, sep) ==
    LET I == {i \in 1..Len(s) : s[i] = sep}
    IN  IF I = {} THEN NoPart
        ELSE SubSeq(s, 1, (CHOOSE i \in I : \A j \in I : i <= j) - 1)

\* get_total_coverage without the test of the exit status.
GetTotalCoverageAnyStatus(out) ==
    LET last == LastNonEmpty(out.stderr)
    IN  IF last = NoLine THEN NoNumber
        ELSE LET rest == AfterFirst(last, Trailer)
             IN  IF rest = NoPart THEN NoNumber
                 ELSE LET nr == BeforeFirst(rest, Space)
                      IN  IF nr = NoPart THEN NoNumber ELSE ParseU32(nr)

\* get_total_coverage on the output of the calibration run: the number of
\* edges, or NoNumber for Err.
GetTotalCoverage(out) ==
    IF ~out.success THEN NoNumber
    ELSE LET last == LastNonEmpty(out.stderr)
         IN  IF last = NoLine THEN NoNumber
             ELSE LET rest == AfterFirst(last, Trailer)
                  IN  IF rest = NoPart THEN NoNumber
                      ELSE LET nr == BeforeFirst(rest, Space)
                           IN  IF nr = NoPart THEN NoNumber ELSE ParseU32(nr)

\* The calibration run has ended with output out: on Err run returns, on Ok
\* set_total is called.
CCalibrate(t, out) ==
    /\ cstate[t] = "calib"
    /\ cout' = [cout EXCEPT ![t] = out]
    /\ LET total == GetTotalCoverage(out)
       IN  IF total = NoNumber
           THEN /\ cstate' = [cstate EXCEPT ![t] = "ret"]
                /\ UNCHANGED ctotals
           ELSE /\ cstate' = [cstate EXCEPT ![t] = "spawn"]
                /\ ctotals' = Append(ctotals, [target |-> t, total |-> total])
    /\ UNCHANGED cchild
    /\ UNCHANGED notCalibVars

\* hfuzz_run().spawn()?: the subprocess runs, or run returns the error.
CSpawn(t, spawned) ==
    /\ cstate[t] = "spawn"
    /\ cstate' = [cstate EXCEPT ![t] = IF spawned THEN "select" ELSE "ret"]
    /\ cchild' = [cchild EXCEPT ![t] = IF spawned THEN "running" ELSE @]
    /\ UNCHANGED <<cout, ctotals>>
    /\ UNCHANGED notCalibVars

CalibNext ==
    \/ \E t \in Parsers, out \in CalibOutputs : CCalibrate(t, out)
    \/ \E t \in Parsers, spawned \in BOOLEAN : CSpawn(t, spawned)

CalibSpec == Init /\ [][CalibNext]_vars

----------------------------------------------------------------------------
\* run_fuzzers on its own, for a configuration with one fuzzing project and
\* neither corpus nor kcov: checkout, build, the spawn of hfuzz::run with its
\* target tasks, and the joins.

\* How a tool run by Command::output ends: exit status zero, exit status
\* non-zero, or the command cannot be run at all.
ToolResults == {"zero", "nonzero", "norun"}

\* checkout(): output().await? fails only when checkout.sh cannot be run;
\* the exit status is not looked at.  The error of run_fuzzers is logged by
\* the run task.
FCheckout(res) ==
    /\ fpc = "checkout"
    /\ fcheckout' = res
    /\ IF res = "norun"
       THEN /\ fpc' = "err"
            /\ flog' = flog \cup {[what |-> "run", task |-> 0]}
       ELSE /\ fpc' = "build"
            /\ UNCHANGED flog
    /\ UNCHANGED <<fbuild, ftask, fjoined>>
    /\ UNCHANGED notFuzzVars

\* builder.build(): a non-zero exit is logged and returned as Err;
\* run_fuzzers drops the result ("let _ =") and spawns hfuzz::run, which
\* spawns one task per target.
FBuild(res) ==
    /\ fpc = "build"
    /\ fbuild' = res
    /\ flog' = IF res = "nonzero"
               THEN flog \cup {[what |-> "build", task |-> 0]} ELSE flog
    /\ ftask' = [t \in Tasks |-> "run"]
    /\ fpc' = "join"
    /\ UNCHANGED <<fcheckout, fjoined>>
    /\ UNCHANGED notFuzzVars

\* The outcomes of a target task: Target::run returns Ok or Err, or panics.
TaskOutcomes == {"ok", "err", "panic"}

FTaskEnd(t, outcome) ==
    /\ ftask[t] = "run"
    /\ ftask' = [ftask EXCEPT ![t] = outcome]
    /\ UNCHANGED <<fpc, fcheckout, fbuild, fjoined, flog>>
    /\ UNCHANGED notFuzzVars

\* A join that returns the error of the task it has awaited.
FJoinPropagate ==
    /\ fpc = "join"
    /\ fjoined < NumTasks
    /\ ftask[fjoined + 1] \in TaskOutcomes
    /\ fjoined' = fjoined + 1
    /\ fpc' = IF ftask[fjoined + 1] = "ok" THEN fpc ELSE "err"
    /\ flog' = IF ftask[fjoined + 1] = "ok" THEN flog
               ELSE flog \cup {[what |-> ftask[fjoined + 1],
                                task |-> fjoined + 1]}
    /\ UNCHANGED <<fcheckout, fbuild, ftask>>
    /\ UNCHANGED notFuzzVars

\* hfuzz::run awaits the next handle and logs an error or a panic.
FJoin ==
    /\ fpc = "join"
    /\ fjoined < NumTasks
    /\ ftask[fjoined + 1] \in TaskOutcomes
    /\ fjoined' = fjoined + 1
    /\ flog' = IF ftask[fjoined + 1] = "ok" THEN flog
               ELSE flog \cup {[what |-> ftask[fjoined + 1],
                                task |-> fjoined + 1]}
    /\ UNCHANGED <<fpc, fcheckout, fbuild, ftask>>
    /\ UNCHANGED notFuzzVars

\* Every handle has been awaited: hfuzz::run returns Ok(()), run_fuzzers
\* joins it and returns Ok(()).
FReturn ==
    /\ fpc = "join"
    /\ fjoined = NumTasks
    /\ fpc' = "ok"
    /\ UNCHANGED <<fcheckout, fbuild, ftask, fjoined, flog>>
    /\ UNCHANGED notFuzzVars

RunNext ==
    \/ \E res \in ToolResults : FCheckout(res)
    \/ \E res \in ToolResults : FBuild(res)
    \/ \E t \in Tasks, outcome \in TaskOutcomes : FTaskEnd(t, outcome)
    \/ FJoin
    \/ FReturn

RunSpec == Init /\ [][RunNext]_vars

----------------------------------------------------------------------------
\* Report::new on its own, with the directory of the branch as earlier runs
\* have left it, and the status files written while the run goes on.

\* The orders in which read_dir can list the entries.
Orders == {o \in [Dirs -> Dirs] : \A a, b \in Dirs : o[a] = o[b] => a = b}

\* The loop of find_previous that does not skip the current directory.
RECURSIVE ScanAnyDir(_, _, _, _)
ScanAnyDir(fs, order, i, latest) ==
    IF i > NumDirs THEN latest
    ELSE LET d == order[i]
         IN  IF fs[d].kind = "dir" /\ fs[d].status.present
             THEN IF latest # NoDir /\ fs[latest].created > fs[d].created
                  THEN ScanAnyDir(fs, order, i + 1, latest)
                  ELSE ScanAnyDir(fs, order, i + 1, d)
             ELSE ScanAnyDir(fs, order, i + 1, latest)

\* The loop of find_previous from the i-th entry listed on, latest being the
\* entry kept so far.
RECURSIVE Scan(_, _, _, _)
Scan(fs, order, i, latest) ==
    IF i > NumDirs THEN latest
    ELSE LET d == order[i]
         IN  IF fs[d].kind = "dir" /\ d # CurrentDir /\ fs[d].status.present
             THEN IF latest # NoDir /\ fs[latest].created > fs[d].created
                  THEN Scan(fs, order, i + 1, latest)
                  ELSE Scan(fs, order, i + 1, d)
             ELSE Scan(fs, order, i + 1, latest)

\* find_previous: None when the directory cannot be read.
FindPrevious(readable, fs, order) ==
    IF ~readable THEN NoDir ELSE Scan(fs, order, 1, NoDir)

\* Report::load.
Load(file) == IF file.present THEN Some(file.status) ELSE None

\* The earlier runs of the branch leave the directory of the branch as it
\* is when Report::new is called.
HEarlierRuns(readable, fs) ==
    /\ hpc = "before"
    /\ hpc' = "new"
    /\ hparent' = readable
    /\ hfs' = fs
    /\ UNCHANGED <<hfound, hprevious, hused, hwrites>>
    /\ UNCHANGED notHistVars

\* Report::new: find_previous, then load of the status file found.
HNew(order) ==
    /\ hpc = "new"
    /\ hpc' = "ready"
    /\ LET found == FindPrevious(hparent, hfs, order)
       IN  /\ hfound' = found
           /\ hprevious' = IF found = NoDir THEN None
                           ELSE Load(hfs[found].status)
    /\ UNCHANGED <<hparent, hfs, hused, hwrites>>
    /\ UNCHANGED notHistVars

\* A status file is saved in a directory of the branch while the run goes
\* on: by Report::update of this run, or of an earlier run whose loop has
\* not stopped.  save creates the directory when it is missing.
HWrite(d, st, c) ==
    /\ hpc = "ready"
    /\ hwrites < MaxWrites
    /\ hfs[d].kind # "file"
    /\ hwrites' = hwrites + 1
    /\ hfs' = [hfs EXCEPT ![d] =
                 [kind |-> "dir",
                  created |-> IF @.kind = "dir" THEN @.created ELSE c,
                  status |-> File(st)]]
    /\ UNCHANGED <<hparent, hpc, hfound, hprevious, hused>>
    /\ UNCHANGED notHistVars

\* get_diff that loads the status file of the previous run again.
HDiffReload ==
    /\ hpc = "ready"
    /\ hused' = IF hfound = NoDir THEN None ELSE Load(hfs[hfound].status)
    /\ UNCHANGED <<hparent, hfs, hpc, hfound, hprevious, hwrites>>
    /\ UNCHANGED notHistVars

\* get_diff: the prev_run baseline is the field "previous".
HDiff ==
    /\ hpc = "ready"
    /\ hused' = hprevious
    /\ UNCHANGED <<hparent, hfs, hpc, hfound, hprevious, hwrites>>
    /\ UNCHANGED notHistVars

ReportNext ==
    \/ \E readable \in BOOLEAN, fs \in [Dirs -> DirEntries] :
           HEarlierRuns(readable, fs)
    \/ \E order \in Orders : HNew(order)
    \/ \E d \in Dirs, st \in PriorStatuses, c \in Times : HWrite(d, st, c)
    \/ HDiff

ReportSpec == Init /\ [][ReportNext]_vars

----------------------------------------------------------------------------
\* The diffs and the summary of Report::update on their own.

\* Largest value of a counter, and the first value whose cast to the signed
\* type is negative.
MaxCounter == 2 ^ CounterBits - 1
SignBit == 2 ^ (CounterBits - 1)

\* "x as i32" on a counter.
AsSigned(x) == IF x < SignBit THEN x ELSE x - 2 * SignBit

\* The signed subtraction leaves the range of the signed type.
Overflows(a, b) == a - b < -SignBit \/ a - b >= SignBit

\* The wrapped result of the signed subtraction.
WrappingSub(a, b) == ((a - b + SignBit) % (2 * SignBit)) - SignBit

\* From<i32> for StatusTrend.
Trend(delta) ==
    IF delta < 0 THEN "regression"
    ELSE IF delta > 0 THEN "improvement" ELSE "none"

\* From<(TargetStatus, TargetStatus)> for TargetStatusDelta.
Delta(curr, prev) ==
    [total |-> WrappingSub(AsSigned(curr.total), AsSigned(prev.total)),
     covered |-> WrappingSub(AsSigned(curr.covered), AsSigned(prev.covered)),
     errors |-> WrappingSub(AsSigned(curr.errors), AsSigned(prev.errors)),
     trend |-> Trend(WrappingSub(AsSigned(curr.total), AsSigned(prev.total)))]

\* One of the subtractions of Delta overflows: a panic when the build checks
\* overflow.
DeltaOverflows(curr, prev) ==
    \/ Overflows(AsSigned(curr.total), AsSigned(prev.total))
    \/ Overflows(AsSigned(curr.covered), AsSigned(prev.covered))
    \/ Overflows(AsSigned(curr.errors), AsSigned(prev.errors))

\* report.as_ref().map(|r| r.get(name)).flatten().cloned().
Lookup(report, n) == IF report.some THEN report.status[n] ELSE NoStatus

\* prev.map(|s| (curr, s).into()).
OptDelta(curr, base) == IF base = NoStatus THEN NoDelta ELSE Delta(curr, base)

\* get_diff and From<(String, TargetStatus, Option.., Option.., Option..)>.
GetDiff(n, curr, prev_report, init_report, previous) ==
    [name |-> n,
     curr |-> curr,
     prev |-> Lookup(prev_report, n),
     delta |-> OptDelta(curr, Lookup(prev_report, n)),
     init |-> Lookup(init_report, n),
     delta_init |-> OptDelta(curr, Lookup(init_report, n)),
     prev_run |-> Lookup(previous, n),
     delta_run |-> OptDelta(curr, Lookup(previous, n))]

\* The body of the summary loop that does not set "changed" for a line about
\* the previous run.
SummaryStepRunSilent(acc, diff) ==
    IF diff.prev # NoStatus /\ diff.delta # NoDelta
    THEN IF diff.delta.covered # 0
         THEN [lines |-> Append(acc.lines, [name |-> diff.name, since |-> "report"]),
               changed |-> TRUE]
         ELSE acc
    ELSE IF diff.prev_run # NoStatus /\ diff.delta_run # NoDelta
    THEN IF <<diff.delta_run.covered, diff.delta_run.total>> # <<0, 0>>
         THEN [lines |-> Append(acc.lines, [name |-> diff.name, since |-> "run"]),
               changed |-> acc.changed]
         ELSE acc
    ELSE acc

\* The body of the summary loop of Report::update for one diff: the lines
\* written so far and "changed".
SummaryStep(acc, diff) ==
    IF diff.prev # NoStatus /\ diff.delta # NoDelta
    THEN IF diff.delta.covered # 0
         THEN [lines |-> Append(acc.lines, [name |-> diff.name, since |-> "report"]),
               changed |-> TRUE]
         ELSE acc
    ELSE IF diff.prev_run # NoStatus /\ diff.delta_run # NoDelta
    THEN IF <<diff.delta_run.covered, diff.delta_run.total>> # <<0, 0>>
         THEN [lines |-> Append(acc.lines, [name |-> diff.name, since |-> "run"]),
               changed |-> TRUE]
         ELSE acc
    ELSE acc

\* The summary loop over the diffs, which are sorted by name.
RECURSIVE SummaryLoop(_, _, _)
SummaryLoop(diffs, i, acc) ==
    IF i > Len(diffs) THEN acc
    ELSE SummaryLoop(diffs, i + 1, SummaryStep(acc, diffs[i]))

\* The diffs of the targets of the snapshot, sorted by name.
RECURSIVE DiffsFrom(_, _, _, _, _)
DiffsFrom(n, curr, prev_report, init_report, previous) ==
    IF n > NumNames THEN <<>>
    ELSE (IF curr[n] = NoStatus THEN <<>>
          ELSE <<GetDiff(n, curr[n], prev_report, init_report, previous)>>)
         \o DiffsFrom(n + 1, curr, prev_report, init_report, previous)

\* Statuses of a target in a snapshot or in a status file.
DiffStatuses ==
    {[total |-> 1, covered |-> 0, errors |-> 0],
     [total |-> 2, covered |-> 1, errors |-> 0],
     [total |-> MaxCounter, covered |-> SignBit, errors |-> 1]}

\* Snapshots: target 1 is registered, the others may be.
DiffSnapshots ==
    {m \in [Names -> DiffStatuses \cup {NoStatus}] : m[1] # NoStatus}

\* Status files: missing, or holding some of the targets.
DiffReports ==
    {None} \cup {Some(m) : m \in [Names -> DiffStatuses \cup {NoStatus}]}

\* hfuzz-init-status.toml: missing, or what an earlier report of the run
\* saved for every target.
DiffInitReports ==
    {None} \cup {Some([n \in Names |-> st]) : st \in DiffStatuses}

\* Report::update is called with a snapshot; the two status files are
\* loaded.
DUpdateCalled ==
    /\ dpc = "before"
    /\ dpc' = "ready"
    /\ dcurr' \in DiffSnapshots
    /\ dprev' \in DiffReports
    /\ dinit' \in DiffInitReports
    /\ dprun' \in DiffReports
    /\ UNCHANGED dout
    /\ UNCHANGED notDiffVars

\* Report::update from "construct report table" to the summary.  With
\* overflow checks compiled in, an overflowing subtraction panics.
DUpdate(checked) ==
    /\ dpc = "ready"
    /\ dpc' = "done"
    /\ LET diffs == DiffsFrom(1, dcurr, dprev, dinit, dprun)
           panics ==
               /\ checked
               /\ \E n \in Names, r \in {dprev, dinit, dprun} :
                      /\ dcurr[n] # NoStatus
                      /\ Lookup(r, n) # NoStatus
                      /\ DeltaOverflows(dcurr[n], Lookup(r, n))
       IN  dout' = IF panics
                   THEN [panic |-> TRUE, diffs |-> <<>>, summary |-> NoSummary]
                   ELSE [panic |-> FALSE, diffs |-> diffs,
                         summary |-> SummaryLoop(diffs, 1, NoSummary)]
    /\ UNCHANGED <<dcurr, dprev, dinit, dprun>>
    /\ UNCHANGED notDiffVars

DiffNext ==
    \/ DUpdateCalled
    \/ \E checked \in BOOLEAN : DUpdate(checked)

DiffSpec == Init /\ [][DiffNext]_vars

----------------------------------------------------------------------------
----------------------------------------------------------------------------
\* push_hook and run_fuzzers for the branches of the configuration: the map
\* "notifies" is keyed by the name of the branch, the working directory of a
\* run is the current directory joined with the sanitized name.  The
\* handlers go through get_sync one at a time, and a run is taken from its
\* spawn to its completion signal as a whole.

\* Characters sanitize_filename replaces.
Illegal == {"/"}

\* sanitize_path_segment: every illegal character becomes "_".
Sanitize(name) ==
    [i \in 1..Len(name) |-> IF name[i] \in Illegal THEN "_" ELSE name[i]]

\* A push event for branch b: get_sync, the wait for the completion signal
\* when the branch has a Synch, and the spawn of the run, whose run_fuzzers
\* removes and checks out its working directory.
WPush(b) ==
    /\ wpushes < MaxDirPushes
    /\ wpushes' = wpushes + 1
    /\ IF ~wentry[b]
       THEN /\ wentry' = [wentry EXCEPT ![b] = TRUE]
            /\ wdir' = [wdir EXCEPT ![b] = Sanitize(b)]
            /\ UNCHANGED <<wpermit, wparked>>
       ELSE IF wpermit[b]
       THEN /\ wpermit' = [wpermit EXCEPT ![b] = FALSE]
            /\ wdir' = [wdir EXCEPT ![b] = Sanitize(b)]
            /\ UNCHANGED <<wentry, wparked>>
       ELSE /\ wparked' = [wparked EXCEPT ![b] = @ + 1]
            /\ UNCHANGED <<wentry, wpermit, wdir>>
    /\ UNCHANGED notBranchVars

\* The run of branch b ends and its task calls notify_one: a waiting push
\* goes on and spawns its run, or the notification is stored.
WRunEnd(b) ==
    /\ wdir[b] # NoPath
    /\ IF wparked[b] > 0
       THEN /\ wparked' = [wparked EXCEPT ![b] = @ - 1]
            /\ wdir' = [wdir EXCEPT ![b] = Sanitize(b)]
            /\ UNCHANGED wpermit
       ELSE /\ wpermit' = [wpermit EXCEPT ![b] = TRUE]
            /\ wdir' = [wdir EXCEPT ![b] = NoPath]
            /\ UNCHANGED wparked
    /\ UNCHANGED <<wentry, wpushes>>
    /\ UNCHANGED notBranchVars

DirNext ==
    \/ \E b \in BranchNames : WPush(b)
    \/ \E b \in BranchNames : WRunEnd(b)

DirSpec == Init /\ [][DirNext]_vars

----------------------------------------------------------------------------
\* The status file on its own: Report::save_status and Report::load.
\* The file is TOML text, followed as a sequence of lines, a line being the
\* sequence of its pieces (characters of a key, punctuation, digits).

\* Target names: two that are bare TOML keys and one that is not.
StoreNames == {<<"a">>, <<"b">>, <<"a", ".", "b">>}
\* Values of a counter: one digit and two digits.
StoreCounts == {0, 10}
TargetStatuses ==
    [total : StoreCounts, covered : StoreCounts, errors : StoreCounts]
FuzzingStatuses ==
    UNION {[names -> TargetStatuses] : names \in SUBSET StoreNames}

\* The orders in which a HashMap with these keys can be iterated.
IterationOrders(names) ==
    {o \in [1..Cardinality(names) -> names] :
        \A i, j \in 1..Cardinality(names) : o[i] = o[j] => i = j}

DecimalDigits == <<"0", "1", "2", "3", "4", "5", "6", "7", "8", "9">>
IsDecimalDigit(c) == \E i \in 1..10 : DecimalDigits[i] = c
DecimalValue(c) == (CHOOSE i \in 1..10 : DecimalDigits[i] = c) - 1

RECURSIVE ToDecimal(_)
ToDecimal(n) ==
    IF n < 10 THEN <<DecimalDigits[n + 1]>>
    ELSE ToDecimal(n \div 10) \o <<DecimalDigits[(n % 10) + 1]>>

RECURSIVE FromDecimal(_)
FromDecimal(digits) ==
    IF digits = <<>> THEN 0
    ELSE FromDecimal(SubSeq(digits, 1, Len(digits) - 1)) * 10
         + DecimalValue(digits[Len(digits)])

\* An integer of TOML: digits, without a leading zero unless it is "0".
IsInteger(digits) ==
    /\ digits # <<>>
    /\ \A i \in 1..Len(digits) : IsDecimalDigit(digits[i])
    /\ Len(digits) > 1 => digits[1] # "0"

\* Characters a key can hold without quotes.
BareChars == {"a", "b"}
IsBare(key) == key # <<>> /\ \A i \in 1..Len(key) : key[i] \in BareChars
Quote == "\""
\* A key as the serializer writes it, quoted when it is not bare.
EmitKey(key) == IF IsBare(key) THEN key ELSE <<Quote>> \o key \o <<Quote>>

FieldNames == <<"total", "covered", "errors">>
Assign == " = "
TableLine(name) == <<"[">> \o EmitKey(name) \o <<"]">>
FieldLine(field, value) == <<field, Assign>> \o ToDecimal(value)
Table(name, st) ==
    << TableLine(name),
       FieldLine("total", st.total),
       FieldLine("covered", st.covered),
       FieldLine("errors", st.errors) >>

\* toml::to_vec of a map of structs: one table per entry, in the order the
\* map is iterated, a blank line before every table but the first.
RECURSIVE SerializeFrom(_, _, _)
SerializeFrom(status, order, i) ==
    IF i > Len(order) THEN <<>>
    ELSE (IF i = 1 THEN <<>> ELSE << <<>> >>)
         \o Table(order[i], status[order[i]])
         \o SerializeFrom(status, order, i + 1)
Serialize(status, order) == SerializeFrom(status, order, 1)

\* The parser's state: the table being read, the tables read, an error.
NoTable == <<"?">>
ParseStart == [table |-> NoTable, map |-> EmptyStatus, err |-> FALSE]
ParseErr(ps) == [ps EXCEPT !.err = TRUE]

\* The name between "[" and "]": a quoted string, or a bare key.  A dotted
\* key names a table inside a table, which is no TargetStatus.
HeaderKey(line) == SubSeq(line, 2, Len(line) - 1)
IsQuoted(key) ==
    /\ Len(key) >= 2
    /\ key[1] = Quote
    /\ key[Len(key)] = Quote
    /\ \A i \in 2..(Len(key) - 1) : key[i] # Quote
KeyName(key) == IF IsQuoted(key) THEN SubSeq(key, 2, Len(key) - 1) ELSE key

ParseHeader(ps, line) ==
    LET key == HeaderKey(line)
    IN  IF Len(line) < 2 \/ line[Len(line)] # "]" THEN ParseErr(ps)
        ELSE IF ~(IsQuoted(key) \/ IsBare(key)) THEN ParseErr(ps)
        ELSE IF KeyName(key) \in DOMAIN ps.map THEN ParseErr(ps)
        ELSE [ps EXCEPT !.table = KeyName(key),
                        !.map = (KeyName(key) :> NoStatus) @@ ps.map]

SetField(st, field, value) ==
    CASE field = "total" -> [st EXCEPT !.total = value]
      [] field = "covered" -> [st EXCEPT !.covered = value]
      [] OTHER -> [st EXCEPT !.errors = value]
GetField(st, field) ==
    CASE field = "total" -> st.total
      [] field = "covered" -> st.covered
      [] OTHER -> st.errors

\* A line "field = integer".  Outside of a table it is a value of the map
\* itself, and an integer is no TargetStatus; a field the struct does not
\* have is skipped; a field given twice is an error.
ParseField(ps, line) ==
    LET field == line[1]
        digits == SubSeq(line, 3, Len(line))
    IN  IF Len(line) < 3 \/ line[2] # Assign \/ ~IsInteger(digits)
        THEN ParseErr(ps)
        ELSE IF ps.table = NoTable THEN ParseErr(ps)
        ELSE IF \A i \in 1..3 : FieldNames[i] # field THEN ps
        ELSE IF GetField(ps.map[ps.table], field) # -1 THEN ParseErr(ps)
        ELSE [ps EXCEPT !.map[ps.table] =
                            SetField(@, field, FromDecimal(digits))]

ParseLine(ps, line) ==
    IF ps.err \/ line = <<>> THEN ps
    ELSE IF line[1] = "[" THEN ParseHeader(ps, line)
    ELSE ParseField(ps, line)

RECURSIVE ParseFrom(_, _, _)
ParseFrom(ps, lines, i) ==
    IF i > Len(lines) THEN ps
    ELSE ParseFrom(ParseLine(ps, lines[i]), lines, i + 1)

\* toml::from_slice into a map of TargetStatus: every table has to give
\* the three fields.
Deserialize(lines) ==
    LET ps == ParseFrom(ParseStart, lines, 1)
    IN  IF ps.err THEN ReturnedErr
        ELSE IF \E n \in DOMAIN ps.map : \E i \in 1..3 :
                    GetField(ps.map[n], FieldNames[i]) = -1
        THEN ReturnedErr
        ELSE ReturnedOk(Some(ps.map))

\* Report::load of a file, from its text.
LoadFile(file) ==
    IF ~file.present THEN ReturnedOk(None) ELSE Deserialize(file.lines)

\* The caller has a status to save.
EChoose ==
    /\ epc = "before"
    /\ estatus' \in FuzzingStatuses
    /\ epc' = "chosen"
    /\ UNCHANGED <<efile, ebuf, eloaded>>
    /\ UNCHANGED notStoreVars

\* save_status: the status is serialized, File::create makes or truncates the
\* file, and write_all on the tokio File returns when the bytes are in the
\* File's buffer and their write is handed to a blocking thread; the File is
\* dropped without flush.  File::create can fail.
ESave(order, created) ==
    /\ epc = "chosen"
    /\ IF created
       THEN /\ efile' = Content(<<>>)
            /\ ebuf' = Content(Serialize(estatus, order))
            /\ epc' = "saved"
       ELSE /\ epc' = "failed"
            /\ UNCHANGED <<efile, ebuf>>
    /\ UNCHANGED <<estatus, eloaded>>
    /\ UNCHANGED notStoreVars

\* The blocking thread writes the buffer to the file.
EWriteBack ==
    /\ ebuf.present
    /\ efile' = Content(ebuf.lines)
    /\ ebuf' = NoContent
    /\ UNCHANGED <<epc, estatus, eloaded>>
    /\ UNCHANGED notStoreVars

\* Report::load of the file, after save_status has returned Ok.
ELoad ==
    /\ epc = "saved"
    /\ eloaded' = LoadFile(efile)
    /\ epc' = "loaded"
    /\ UNCHANGED <<estatus, efile, ebuf>>
    /\ UNCHANGED notStoreVars

StoreNext ==
    \/ EChoose
    \/ \E created \in BOOLEAN :
           \E order \in IterationOrders(DOMAIN estatus) : ESave(order, created)
    \/ EWriteBack
    \/ ELoad

StoreSpec == Init /\ [][StoreNext]_vars

\* The 9th field of a line of the stream, taken on its own.
IsZeroLine(l) == Head(l) = Marker /\ NinthField(l) = <<"0">>

\* A step of filter_output of target t that reads line l.
ReadsLine(t, l) == plog' = [plog EXCEPT ![t] = Append(@, l)]

\* C19: reading a coverage line whose 9th field is exactly "0" makes no call
\* on the feedback and does not end the loop of filter_output.
C19_ZeroLineIgnored ==
    [][\A t \in Parsers, l \in Lines :
        (ReadsLine(t, l) /\ IsZeroLine(l))
            => pcalls' = pcalls /\ perrs' = perrs /\ pstate'[t] = "read"]_vars

\* A "0" line has been read after a line that was counted, and the loop is
\* still reading.
C19_Witness ==
    \E t \in Parsers :
        /\ Len(plog[t]) >= 2
        /\ IsZeroLine(plog[t][Len(plog[t])])
        /\ \E i \in 1..Len(pcalls) : pcalls[i].target = t
        /\ pstate[t] = "read"

\* C20: reading the crash line of the stream makes exactly one add_errors
\* call.
C20_CrashLineCountsOneError ==
    [][\A t \in Parsers :
        ReadsLine(t, CrashLine) => Len(perrs') = Len(perrs) + 1]_vars


\* A coverage line of the stream whose 9th field is missing or is not a
\* number.
IsBadLine(l) ==
    /\ Head(l) = Marker
    /\ LET e == NinthField(l)
       IN  e = NoField \/ (e # <<"0">> /\ ParseU32(e) = NoNumber)

\* The add_covered calls made for target t.
CallsOf(log, t) == SelectSeq(log, LAMBDA c : c.target = t)

\* C21: reading a coverage line with a missing or non-numeric 9th field ends
\* the loop of filter_output of that target without a call, leaves its
\* subprocess and the filters of the other targets as they are, and once
\* the loop has ended no add_covered call is made for the target.
C21_ParseFailureStopsTarget ==
    /\ [][\A t \in Parsers, l \in Lines :
           (ReadsLine(t, l) /\ IsBadLine(l))
               => /\ pstate'[t] = "done"
                  /\ pcalls' = pcalls
                  /\ pchild' = pchild
                  /\ \A u \in Parsers \ {t} :
                         pstate'[u] = pstate[u] /\ pline'[u] = pline[u]]_vars
    /\ [][\A t \in Parsers :
           pstate[t] = "done" => CallsOf(pcalls', t) = CallsOf(pcalls, t)]_vars


\* A line carries a trailer whose number can be read.
HasTrailerNumber(line) ==
    \E i \in 1..Len(line), j \in 1..Len(line) :
        /\ i < j
        /\ line[i] = Trailer
        /\ \A k \in 1..(i - 1) : line[k] # Trailer
        /\ line[j] = Space
        /\ \A k \in (i + 1)..(j - 1) : line[k] \in Digits
        /\ j > i + 1

\* The calibration run failed: non-zero exit, no non-empty line of output,
\* or a last non-empty line without a trailer that can be read.
CalibFailed(out) ==
    \/ ~out.success
    \/ \A i \in 1..Len(out.stderr) : out.stderr[i] = <<>>
    \/ ~HasTrailerNumber(LastNonEmpty(out.stderr))

\* C22: for a target whose calibration run failed no set_total call has been
\* made and no fuzzing subprocess has been spawned.
C22_NoFuzzingAfterFailedCalibration ==
    \A t \in Parsers :
        (cout[t] # NoOutput /\ CalibFailed(cout[t]))
            => /\ \A i \in 1..Len(ctotals) : ctotals[i].target # t
               /\ cchild[t] = "none"
               /\ cstate[t] = "ret"

\* The calibration of one target has failed on a non-zero exit with a
\* readable trailer, while another target has been spawned.
C22_Witness ==
    \E t, u \in Parsers :
        /\ ~cout[t].success /\ cout[t] # NoOutput
        /\ HasTrailerNumber(LastNonEmpty(cout[t].stderr))
        /\ cstate[t] = "ret"
        /\ cchild[u] = "running"


\* C23: once the checkout or the build has exited non-zero, no target task
\* of the run is started and the failure is in the log.
C23_ToolFailureAbortsRun ==
    /\ fcheckout = "nonzero"
           => /\ \A t \in Tasks : ftask[t] = "none"
              /\ fbuild = "none"
              /\ flog # {}
    /\ fbuild = "nonzero"
           => /\ \A t \in Tasks : ftask[t] = "none"
              /\ [what |-> "build", task |-> 0] \in flog


\* A target task has ended with an error or a panic.
TaskFailed(t) == ftask[t] \in {"err", "panic"}

C25_FailedCycleDoesNotBlockNext ==
    [][\A r \in Tracked :
        /\ (sent'[r] = "plain" /\ inflight'[r] # inflight[r]
                               /\ inflight'[r] \subseteq inflight[r])
               => /\ spc'[r] = spc[r]
                  /\ supd'[r] = supd[r]
                  /\ agg'[r] = agg[r]
                  /\ updPermit'[r] = updPermit[r]
                  /\ stopPermit'[r] = stopPermit[r]
        /\ (sent[r] = "plain" /\ supd[r] /\ ~supd'[r])
               => Snapshot(agg[r]) \in inflight'[r]
        /\ (sent[r] = "plain" /\ disk'[r] # disk[r])
               => \E s \in inflight[r] : disk'[r] = File(s)]_vars

\* After a report task has failed without saving, the loop is running and a
\* snapshot of the map as it is now is in the hands of a report task.
C25_Witness ==
    \E r \in Tracked :
        /\ sent[r] = "plain"
        /\ disk[r] = NoFile
        /\ spc[r] = "run"
        /\ ~supd[r]
        /\ agg[r] # EmptyMap
        /\ inflight[r] = {Snapshot(agg[r])}


\* The entries find_previous may return: directories other than the current
\* one that hold a status file.
Qualifying(fs) ==
    {d \in Dirs \ {CurrentDir} : fs[d].kind = "dir" /\ fs[d].status.present}

\* C26: find_previous returns no directory when the directory of the branch
\* cannot be read or holds no qualifying entry, and otherwise a qualifying
\* entry whose creation time no qualifying entry exceeds; the status loaded
\* is the one of that entry.
C26_LatestPriorRun ==
    [][hpc = "new" /\ hpc' = "ready"
         => LET Q == Qualifying(hfs)
            IN  IF ~hparent \/ Q = {}
                THEN hfound' = NoDir /\ hprevious' = None
                ELSE /\ hfound' \in Q
                     /\ \A q \in Q : hfs[q].created <= hfs[hfound'].created
                     /\ hprevious' = Some(hfs[hfound'].status.status)]_vars

\* The current directory holds a status file and is the newest, two other
\* directories with status files have distinct creation times, and the
\* newer of the two has been returned.
C26_Witness ==
    /\ hpc = "ready" /\ hwrites = 0
    /\ hfs[CurrentDir].kind = "dir" /\ hfs[CurrentDir].status.present
    /\ hfs[CurrentDir].created = MaxTime
    /\ hfound \in Qualifying(hfs)
    /\ \E q \in Qualifying(hfs) : hfs[q].created < hfs[hfound].created

\* C30: the field "previous" does not change once Report::new has set it,
\* and the prev_run baseline of every get_diff is that field.
C30_PriorRunBaselineFixed ==
    /\ [][hpc = "ready" => hprevious' = hprevious]_vars
    /\ [](hpc = "ready" /\ hused # None => hused = hprevious)

\* The status file of the previous run has been overwritten after
\* Report::new with another status, and a diff has been made since.
C30_Witness ==
    /\ hpc = "ready"
    /\ hfound # NoDir
    /\ hused # None
    /\ hwrites > 0
    /\ Load(hfs[hfound].status) # hprevious


\* What the three baselines of target n are loaded from.
Sources(n) ==
    {<<Lookup(dprev, n), 1>>, <<Lookup(dinit, n), 2>>, <<Lookup(dprun, n), 3>>}

\* The diff computed for target n.
DiffOf(n) == CHOOSE d \in {dout.diffs[i] : i \in 1..Len(dout.diffs)} : d.name = n

\* Baseline k of a diff with its delta.
BaselineOf(diff, k) ==
    IF k = 1 THEN <<diff.prev, diff.delta>>
    ELSE IF k = 2 THEN <<diff.init, diff.delta_init>>
    ELSE <<diff.prev_run, diff.delta_run>>

\* C27: Report::update completes, and for every target of the snapshot and
\* each of its three baselines: when the target is in the baseline the
\* fields of the delta are the current values minus the baseline's, when it
\* is not, baseline and delta are absent.
C27_DeltaIsDifference ==
    dpc = "done"
        => /\ ~dout.panic
           /\ \A n \in Names : dcurr[n] # NoStatus =>
                 /\ \E i \in 1..Len(dout.diffs) : dout.diffs[i].name = n
                 /\ \A src \in Sources(n) :
                      LET base == src[1]
                          got == BaselineOf(DiffOf(n), src[2])
                      IN  IF base = NoStatus
                          THEN got = <<NoStatus, NoDelta>>
                          ELSE /\ got[1] = base
                               /\ got[2].total = dcurr[n].total - base.total
                               /\ got[2].covered = dcurr[n].covered - base.covered
                               /\ got[2].errors = dcurr[n].errors - base.errors

\* The targets the summary has a line for.
Listed == {dout.summary.lines[i].name : i \in 1..Len(dout.summary.lines)}

\* C28: a target of the snapshot has a line in the summary exactly when its
\* covered count differs from the previous report's, or its covered or
\* total count differs from the previous run's.
C28_ListedIffChanged ==
    (dpc = "done" /\ ~dout.panic)
        => \A n \in Names : dcurr[n] # NoStatus =>
              (n \in Listed <=>
                  \/ /\ Lookup(dprev, n) # NoStatus
                     /\ dcurr[n].covered # Lookup(dprev, n).covered
                  \/ /\ Lookup(dprun, n) # NoStatus
                     /\ \/ dcurr[n].covered # Lookup(dprun, n).covered
                        \/ dcurr[n].total # Lookup(dprun, n).total)

\* C29: "changed" stays false, so that the summary states that nothing has
\* changed, exactly when the summary has no line for a target.
C29_NothingChangedIffNoLine ==
    (dpc = "done" /\ ~dout.panic)
        => (~dout.summary.changed <=> dout.summary.lines = <<>>)

\* Report::update has gone through a snapshot of two targets, each with a
\* previous report and a previous run to compare with, and has found
\* nothing to list.
C29_Witness ==
    /\ dpc = "done" /\ ~dout.panic
    /\ ~dout.summary.changed
    /\ Len(dout.diffs) = NumNames
    /\ \A n \in Names : /\ Lookup(dprev, n) # NoStatus
                        /\ Lookup(dprun, n) # NoStatus


\* The fields of a status, and of a delta.
Fields == {"total", "covered", "errors"}

\* C36: computing a delta never overflows, and each field of every delta
\* computed is the signed difference of the current value and the
\* baseline's, whatever the values of the unsigned counters are.
C36_DeltaIsSignedDifference ==
    dpc = "done"
        => /\ ~dout.panic
           /\ \A i \in 1..Len(dout.diffs) : \A k \in 1..3 :
                 LET got == BaselineOf(dout.diffs[i], k)
                 IN  got[1] # NoStatus
                         => \A f \in Fields :
                               got[2][f] = dout.diffs[i].curr[f] - got[1][f]


\* A coverage line of the stream whose 9th field is a number other than "0".
IsCountLine(l) ==
    /\ Head(l) = Marker
    /\ NinthField(l) # NoField
    /\ NinthField(l) # <<"0">>
    /\ ParseU32(NinthField(l)) # NoNumber

\* C37: while the loop of filter_output of a target is reading, reading a
\* coverage line whose 9th field is a number other than "0" makes exactly one
\* add_covered call for the target, with the value of that line, whatever
\* the lines read before were.
C37_CountLineMakesOneCall ==
    [][\A t \in Parsers, l \in Lines :
        (ReadsLine(t, l) /\ IsCountLine(l) /\ pstate[t] = "read")
            => pcalls' = Append(pcalls,
                   [target |-> t, covered |-> ParseU32(NinthField(l))])]_vars


\* The loop takes the updated branch for the first update of the run: no
\* update has been taken since the start, before which at most one callback
\* has fired, without an update.
FirstUpdateTaken ==
    /\ ~uupdate
    /\ uupdate'
    /\ ucb.count <= 1
    /\ ~ucb.update

\* C34: when the loop takes the first update of the run the sleep is armed
\* with start_timeout, also when a callback without update has fired before.
C34_FirstUpdateArmsStartTimeout ==
    [][FirstUpdateTaken => uleft' = StartTimeout /\ utimeout' = StartTimeout]_vars


\* The select! of the target has completed with filter_output, the
\* subprocess is still running and no cancellation has reached the task.
ParsingEnded(r, t) ==
    tpc[r][t] = "wait" /\ child[r][t] = "running" /\ ~tstop[r][t]

\* C33: once the parsing of a target's output has ended with the subprocess
\* still running, a cancellation broadcast from then on is followed by the
\* return of the target task, which takes the end of the subprocess.
C33_CancelAfterParsingEnded ==
    \A r \in Runs, t \in Targets :
        [](ParsingEnded(r, t) => [](tstop[r][t] => <>(tpc[r][t] = "ret")))


\* C39: a run that has signalled completion has no target task that has not
\* returned and no fuzzing subprocess that is still running.
C39_CompletionAfterTargetsReturned ==
    \A r \in Runs :
        signalled[r] > 0
            => \A t \in Targets :
                  /\ tpc[r][t] \in {"none", "ret"}
                  /\ child[r][t] # "running"

\* A run has signalled completion after a target task that ran a fuzzing
\* subprocess returned.
C39_Witness ==
    \E r \in Runs, t \in Targets :
        /\ signalled[r] > 0
        /\ tpc[r][t] = "ret"
        /\ child[r][t] = "exited"


\* Push p has taken the completion notification of its token and its handler
\* has panicked in create_feedback; push q, which came after p, waits on the
\* same token, on which no run is active or has panicked and no other push
\* is about to spawn one.
WaitsAfterFailedInit(p, q) ==
    /\ p < q
    /\ ppc[p] = "panicked"
    /\ Existing(p)
    /\ ptok[q] = ptok[p]
    /\ ppc[q] \in {"wait", "parked"}
    /\ \A r \in OnToken(ptok[p]) : ~Active(r) /\ rpc[r] # "panicked"
    /\ \A o \in OnToken(ptok[p]) : ppc[o] # "feedback"

\* C40: a push that waits for the completion signal of a token whose
\* notification went to a push that failed in create_feedback launches its
\* run nevertheless.
C40_PushAfterFailedInitLaunches ==
    \A p, q \in Pushes : [](WaitsAfterFailedInit(p, q) => <>Launched(q))


\* The pushes have gone through get_sync one after another: one of them has
\* inserted the token, the others have found it.
OneAfterAnother ==
    Cardinality({p \in Pushes : ppc[p] = "write" \/ ptok[p] = p}) <= 1

\* Active runs of token k, notifications stored on it, and pushes that have
\* taken its notification and have not spawned their run yet.
Holders(k) ==
    Cardinality({r \in OnToken(k) : Active(r)})
        + (IF permit[k] THEN 1 ELSE 0)
        + Cardinality({p \in OnToken(k) : ppc[p] = "feedback"})

\* C38: when the pushes go through get_sync one after another, then from the
\* spawn of the first push's run on, the active runs of the token, the
\* notifications stored on it and the pushes that have taken a notification
\* and not yet spawned their run are exactly one in all.
C38_OneHolderPerToken ==
    \A k \in Pushes :
        (OneAfterAnother /\ registry = k /\ ppc[k] = "done") => Holders(k) = 1


\* Snapshot a of a run was taken before snapshot b: within a run the covered
\* counts only grow once the totals are set.
TakenBefore(a, b) ==
    /\ a # b
    /\ \A t \in Targets : a[t] # NoStatus =>
           b[t] # NoStatus /\ a[t].covered <= b[t].covered

\* C35: when the last of the report generations in flight for a run
\* finishes, it does not leave in the status file a snapshot taken before
\* the one the file held: the file ends with the latest snapshot.
C35_LatestSnapshotWins ==
    [][\A r \in Tracked :
        (disk[r].present /\ disk'[r].present /\ inflight[r] # {}
             /\ inflight'[r] = {})
            => ~TakenBefore(disk'[r].status, disk[r].status)]_vars


\* C32: two branches that have an active run at the same time do not have
\* them work in the same directory.
C32_CheckoutDirExclusive ==
    \A b1, b2 \in BranchNames :
        (b1 # b2 /\ wdir[b1] # NoPath /\ wdir[b2] # NoPath)
            => wdir[b1] # wdir[b2]

\* C31: when save_status has returned Ok and load of the same file has
\* returned, load has returned Ok with a status equal to the saved one: the
\* same target names, and for each the same total, covered and errors.
C31_SaveLoadRoundTrip ==
    epc = "loaded" => eloaded = ReturnedOk(Some(estatus))

====
